---- MODULE Spec2Model ----
(***************************************************************************)
(* Timeline reconciliation of hospital bed-census snapshots and the        *)
(* monthly reports made from it (services/reconciliationService.ts:        *)
(* reconcileSnapshots, generateReportForPeriod, generateMonthlyReports).   *)
(*                                                                         *)
(* A Date is modelled by its getTime() value, counted in half-days (units  *)
(* of NoonMs milliseconds): every Date the program handles here is a local *)
(* noon or a local midnight.  The process runs in a time zone of fixed     *)
(* offset (taken as 0, no daylight-saving change inside the data), so that *)
(* local noon of day d is d * OneDay + HalfDay and the ISO date string of  *)
(* a Date of day d is d.  Day 1 is January 1st, 2025.                      *)
(*                                                                         *)
(* Snapshot objects are mutable and shared by reference in the source.     *)
(* The variable `snapshots` is the heap of those objects, indexed by their *)
(* position in the list handed to reconcileSnapshots; every other          *)
(* collection of snapshots (sorted, patientGroups, patientSnaps) holds     *)
(* indices into it.  Events are mutable objects too: `events` holds them   *)
(* and currentEvent is an index into events (0 stands for null).  A report *)
(* holds references to Patient objects: the objects it made are in         *)
(* `copies`.                                                               *)
(***************************************************************************)
EXTENDS Integers, Sequences, FiniteSets, TLC

\* ------------------------------------------------------------------ bounds

\* Largest day number of a snapshot date.
MaxDay == 5

\* Largest number of snapshots in the list given to reconcileSnapshots.
MaxSnaps == 3

\* ------------------------------------------------------------ time and dates

MsPerDay == 86400000

NoonMs == 43200000

\* A day and half a day in the unit of time of the model.
OneDay == MsPerDay \div NoonMs

HalfDay == NoonMs \div NoonMs

\* An optional Date field that is not set (dischargeDate?: Date).
Undefined == -1

\* new Date(2025, 0, day); date.setHours(12, 0, 0, 0)
Noon(day) == day * OneDay + HalfDay

\* date.toISOString().split('T')[0], as a day number
IsoDate(t) == t \div OneDay

\* Math.round(a / b) for an even b > 0: floor(a / b + 1/2)
MathRound(a, b) == (a + b \div 2) \div b

\* Math.ceil(a / b) for b > 0
MathCeil(a, b) == -((-a) \div b)

\* d = new Date(t); d.setDate(d.getDate() + 1)
NextDay(t) == t + OneDay

\* ------------------------------------------------------------------ strings

\* A name is a sequence of characters; a normalized name, a rut and a
\* patient key are strings.
LowerChars == <<"a","b","c","d","e","f","g","h","i","j","k","l","m",
                "n","o","p","q","r","s","t","u","v","w","x","y","z">>

UpperChars == <<"A","B","C","D","E","F","G","H","I","J","K","L","M",
                "N","O","P","Q","R","S","T","U","V","W","X","Y","Z">>

\* Accented letters (after toUpperCase) and the base letter NFD leaves once
\* the combining marks U+0300..U+036F are removed.
AccentedLower == <<"á","é","í","ó","ú","ñ">>

AccentedUpper == <<"Á","É","Í","Ó","Ú","Ñ">>

AccentBase == <<"A","E","I","O","U","N">>

IndexIn(c, s) == IF \E k \in 1..Len(s) : s[k] = c
                 THEN CHOOSE k \in 1..Len(s) : s[k] = c
                 ELSE 0

\* c.toUpperCase()
ToUpperChar(c) ==
    IF IndexIn(c, LowerChars) # 0 THEN UpperChars[IndexIn(c, LowerChars)]
    ELSE IF IndexIn(c, AccentedLower) # 0 THEN AccentedUpper[IndexIn(c, AccentedLower)]
    ELSE c

\* .normalize("NFD").replace(/[̀-ͯ]/g, "")
StripAccent(c) ==
    IF IndexIn(c, AccentedUpper) # 0 THEN AccentBase[IndexIn(c, AccentedUpper)] ELSE c

IsSpace(c) == c = " "

\* .replace(/[^A-Z\s]/g, "")
RECURSIVE KeepLetters(_)
KeepLetters(s) ==
    IF s = <<>> THEN <<>>
    ELSE IF IndexIn(Head(s), UpperChars) # 0 \/ IsSpace(Head(s))
         THEN <<Head(s)>> \o KeepLetters(Tail(s))
         ELSE KeepLetters(Tail(s))

\* .replace(/\s+/g, " ")
RECURSIVE CollapseSpaces(_)
CollapseSpaces(s) ==
    IF Len(s) < 2 THEN s
    ELSE IF IsSpace(s[1]) /\ IsSpace(s[2]) THEN CollapseSpaces(Tail(s))
         ELSE <<Head(s)>> \o CollapseSpaces(Tail(s))

\* .trim()
RECURSIVE Trim(_)
Trim(s) ==
    IF s = <<>> THEN s
    ELSE IF IsSpace(Head(s)) THEN Trim(Tail(s))
    ELSE IF IsSpace(s[Len(s)]) THEN Trim(SubSeq(s, 1, Len(s) - 1))
    ELSE s

RECURSIVE Join(_)
Join(s) == IF s = <<>> THEN "" ELSE Head(s) \o Join(Tail(s))

normalizeName(name) ==
    IF name = <<>> THEN ""
    ELSE Join(Trim(CollapseSpaces(KeepLetters(
             [k \in 1..Len(name) |-> StripAccent(ToUpperChar(name[k]))]))))

\* ---------------------------------------------------------------- snapshots

\* createSnapshot of the test runner: a non-UPC snapshot in a MEDIA bed.
createSnapshot(day, name, rut, status) ==
    [date |-> Noon(day), name |-> name, rut |-> rut, diagnosis |-> "Test Diag",
     bedType |-> "MEDIA", isUPC |-> FALSE, status |-> status]

\* The same observation made in a critical-care bed.
UpcSnapshot(day, name, rut, status) ==
    [createSnapshot(day, name, rut, status) EXCEPT
        !.isUPC = TRUE, !.bedType = "UCI", !.diagnosis = "Dx"]

SnapshotStatus == {"HOSPITALIZED", "DISCHARGED", "TRANSFERRED"}

John == <<"J","o","h","n">>

Jane == <<"J","a","n","e">>

Names == {John, Jane}

\* What one row of the input says besides its date: patient 1-9 (John) in
\* any block in a basic bed or hospitalized in a critical-care bed, and
\* patient 2-9 (Jane) hospitalized in a basic bed.
Rows ==
    { [name |-> John, rut |-> "1-9", status |-> st, upc |-> FALSE] :
          st \in SnapshotStatus }
    \cup { [name |-> John, rut |-> "1-9", status |-> "HOSPITALIZED", upc |-> TRUE],
           [name |-> Jane, rut |-> "2-9", status |-> "HOSPITALIZED", upc |-> FALSE] }

\* Rows that need identity resolution: John with a full rut, discharged
\* with the rut column left empty and, in a critical-care bed, under
\* another rut; Jane, whose rut is never known.
RepairRows ==
    { [name |-> John, rut |-> "11111-1", status |-> "HOSPITALIZED", upc |-> FALSE],
      [name |-> John, rut |-> "", status |-> "DISCHARGED", upc |-> FALSE],
      [name |-> John, rut |-> "22222-2", status |-> "HOSPITALIZED", upc |-> TRUE],
      [name |-> Jane, rut |-> "", status |-> "HOSPITALIZED", upc |-> FALSE] }

MakeSnapshot(day, row) ==
    IF row.upc THEN UpcSnapshot(day, row.name, row.rut, row.status)
    ELSE createSnapshot(day, row.name, row.rut, row.status)

\* The day numbers of a list of n snapshots in ascending date order.
SortedDays(n) ==
    { d \in [1..n -> 1..MaxDay] : \A k \in 1..n - 1 : d[k] <= d[k + 1] }

\* ------------------------------------------------- reconcileSnapshots: steps

\* [...snapshots].sort((a, b) => a.date.getTime() - b.date.getTime()),
\* a stable sort, on indices into the heap.
RECURSIVE InsertByDate(_, _, _)
InsertByDate(s, x, heap) ==
    IF s = <<>> THEN <<x>>
    ELSE IF heap[Head(s)].date <= heap[x].date
         THEN <<Head(s)>> \o InsertByDate(Tail(s), x, heap)
         ELSE <<x>> \o s

RECURSIVE SortByDate(_, _)
SortByDate(s, heap) ==
    IF s = <<>> THEN <<>>
    ELSE InsertByDate(SortByDate(SubSeq(s, 1, Len(s) - 1), heap), s[Len(s)], heap)

\* Mutant of GlobalMaxDate: the first date of the sorted list.
GlobalMinDate(srt, heap) ==
    IF Len(srt) > 0 THEN heap[srt[1]].date ELSE Noon(MaxDay + 1)

\* new Date() : the time of the call, later than every snapshot.
Now == Noon(MaxDay + 1)

GlobalMaxDate(srt, heap) ==
    IF Len(srt) > 0 THEN heap[srt[Len(srt)]].date ELSE Now

EmptyMap == [x \in {} |-> ""]

MapSet(m, k, v) == [x \in DOMAIN m \cup {k} |-> IF x = k THEN v ELSE m[x]]

\* Mutant of BuildNameToRutMap: no name is connected to a rut.
NoNameToRutMap(s, heap, map) == map

\* sorted.forEach(s => { if (s.rut && s.rut.length > 3) { ... set(n, s.rut) } })
RECURSIVE BuildNameToRutMap(_, _, _)
BuildNameToRutMap(s, heap, map) ==
    IF s = <<>> THEN map
    ELSE LET sn == heap[Head(s)]
             n == normalizeName(sn.name)
         IN  BuildNameToRutMap(Tail(s), heap,
                 IF sn.rut # "" /\ Len(sn.rut) > 3 /\ n # ""
                 THEN MapSet(map, n, sn.rut) ELSE map)

GroupIndex(groups, key) ==
    IF \E k \in 1..Len(groups) : groups[k].key = key
    THEN CHOOSE k \in 1..Len(groups) : groups[k].key = key
    ELSE 0

\* patientGroups.get(key).push(s), creating the group on first use; the
\* groups keep the insertion order of a Map.
PushToGroup(groups, key, x) ==
    IF GroupIndex(groups, key) = 0
    THEN Append(groups, [key |-> key, snaps |-> <<x>>])
    ELSE [groups EXCEPT ![GroupIndex(groups, key)].snaps = Append(@, x)]

\* The grouping loop; it writes the rut found through the name map back
\* into the snapshot.
RECURSIVE GroupSnapshots(_, _, _, _)
GroupSnapshots(s, heap, map, groups) ==
    IF s = <<>> THEN [heap |-> heap, groups |-> groups]
    ELSE LET x == Head(s)
             n == normalizeName(heap[x].name)
             noRut == heap[x].rut = "" \/ Len(heap[x].rut) < 3
             viaMap == noRut /\ n \in DOMAIN map
             key == IF ~noRut THEN heap[x].rut
                    ELSE IF viaMap THEN map[n]
                    ELSE "NAME-" \o n
             heap2 == IF viaMap THEN [heap EXCEPT ![x].rut = key] ELSE heap
         IN  GroupSnapshots(Tail(s), heap2, map, PushToGroup(groups, key, x))

\* Mutant of ConsolidateLoop: same-day diagnoses that differ are joined
\* instead of the longest being kept.
RECURSIVE ConsolidateLoopJoin(_, _, _, _, _)
ConsolidateLoopJoin(heap, raw, k, lastSnap, out) ==
    IF k > Len(raw) THEN [heap |-> heap, out |-> Append(out, lastSnap)]
    ELSE LET cur == raw[k] IN
         IF heap[cur].date = heap[lastSnap].date
         THEN LET last1 == IF heap[cur].isUPC /\ ~heap[lastSnap].isUPC
                           THEN cur ELSE lastSnap
                  h1 == IF heap[cur].status # "HOSPITALIZED"
                           /\ heap[last1].status = "HOSPITALIZED"
                        THEN [heap EXCEPT ![last1].status = heap[cur].status]
                        ELSE heap
                  h2 == IF h1[cur].diagnosis # h1[last1].diagnosis
                        THEN [h1 EXCEPT ![last1].diagnosis = @ \o h1[cur].diagnosis]
                        ELSE h1
              IN  ConsolidateLoopJoin(h2, raw, k + 1, last1, out)
         ELSE ConsolidateLoopJoin(heap, raw, k + 1, cur, Append(out, lastSnap))

\* The same-day consolidation loop of one group: lastSnap is a reference
\* to a snapshot of the heap, and the merge writes into that object.
RECURSIVE ConsolidateLoop(_, _, _, _, _)
ConsolidateLoop(heap, raw, k, lastSnap, out) ==
    IF k > Len(raw) THEN [heap |-> heap, out |-> Append(out, lastSnap)]
    ELSE LET cur == raw[k] IN
         IF heap[cur].date = heap[lastSnap].date
         THEN LET last1 == IF heap[cur].isUPC /\ ~heap[lastSnap].isUPC
                           THEN cur ELSE lastSnap
                  h1 == IF heap[cur].status # "HOSPITALIZED"
                           /\ heap[last1].status = "HOSPITALIZED"
                        THEN [heap EXCEPT ![last1].status = heap[cur].status]
                        ELSE heap
                  h2 == IF Len(h1[cur].diagnosis) > Len(h1[last1].diagnosis)
                        THEN [h1 EXCEPT ![last1].diagnosis = h1[cur].diagnosis]
                        ELSE h1
              IN  ConsolidateLoop(h2, raw, k + 1, last1, out)
         ELSE ConsolidateLoop(heap, raw, k + 1, cur, Append(out, lastSnap))

\* Mutant of ConsolidateSameDay: the sorted group enters segmentation as it is.
NoConsolidation(heap, rawSnaps) ==
    [heap |-> heap, out |-> SortByDate(rawSnaps, heap)]

ConsolidateSameDay(heap, rawSnaps) ==
    IF Len(rawSnaps) > 0
    THEN ConsolidateLoop(heap, SortByDate(rawSnaps, heap), 2,
                         SortByDate(rawSnaps, heap)[1], <<>>)
    ELSE [heap |-> heap, out |-> <<>>]

\* Days strictly between the event's last record and the snapshot.
GapDays(snapDate, lastSeen) == MathRound(snapDate - lastSeen, OneDay) - 1

\* Mutants of IsGap: no tolerance, and a tolerance of two missing days.
IsGapNoTolerance(snapDate, lastSeen) == GapDays(snapDate, lastSeen) > 0

IsGapTwoDays(snapDate, lastSeen) == GapDays(snapDate, lastSeen) > 2

IsGap(snapDate, lastSeen) == GapDays(snapDate, lastSeen) > 1

\* Mutant of LosBetween: the exit day counted as a bed-day.
LosInclusive(firstSeen, end) == MathCeil(end - firstSeen, OneDay) + 1

\* diff > 0 ? diff : 1, diff = Math.ceil((end - firstSeen) / 86400000)
LosBetween(firstSeen, end) ==
    IF MathCeil(end - firstSeen, OneDay) > 0
    THEN MathCeil(end - firstSeen, OneDay) ELSE 1

\* Mutant of ImplicitDischarge: the event is left as it is.
LeftOpen(e) == e

\* Mutant of ImplicitDischarge: discharged on the day last seen.
ImplicitDischargeSameDay(e) ==
    [e EXCEPT !.dischargeDate = e.lastSeen,
              !.status = "Alta",
              !.los = LosBetween(e.firstSeen, e.lastSeen)]

\* IMPLICIT DISCHARGE RULE: seen on day X and gone, discharged on day X + 1.
ImplicitDischarge(e) ==
    [e EXCEPT !.dischargeDate = NextDay(e.lastSeen),
              !.status = "Alta",
              !.los = LosBetween(e.firstSeen, NextDay(e.lastSeen))]

\* patientKey.startsWith('NAME-'), for the keys the grouping makes
StartsWithNAME(key) == key \in { "NAME-" \o normalizeName(nm) : nm \in Names }

\* The event opened at a snapshot, closed at once when the snapshot is in
\* the discharged or transferred block.
NewEvent(patientKey, snap) ==
    LET e == [id |-> <<patientKey, IsoDate(snap.date)>>,
              rut |-> IF snap.rut # "" THEN snap.rut
                      ELSE IF StartsWithNAME(patientKey) THEN "" ELSE patientKey,
              name |-> snap.name,
              age |-> 0,
              diagnosis |-> snap.diagnosis,
              bedType |-> snap.bedType,
              isUPC |-> snap.isUPC,
              wasEverUPC |-> snap.isUPC,
              firstSeen |-> snap.date,
              lastSeen |-> snap.date,
              dischargeDate |-> Undefined,
              transferDate |-> Undefined,
              status |-> "Hospitalizado",
              los |-> 0,
              daysInPeriod |-> 0,
              history |-> <<IsoDate(snap.date)>>,
              inconsistencies |-> <<>>]
    IN  IF snap.status = "DISCHARGED"
        THEN [e EXCEPT !.status = "Alta", !.dischargeDate = snap.date, !.los = 1]
        ELSE IF snap.status = "TRANSFERRED"
        THEN [e EXCEPT !.status = "Traslado", !.transferDate = snap.date, !.los = 1]
        ELSE e

\* Mutant of Resurrect: the status is reset, the exit dates are kept.
ResurrectStatusOnly(e) ==
    IF e.status = "Alta" \/ e.status = "Traslado"
    THEN [e EXCEPT !.status = "Hospitalizado"]
    ELSE e

\* Mutant of Resurrect: a closed event stays closed.
NoResurrect(e) == e

\* RESURRECTION LOGIC: a closed event whose patient reappears inside the
\* continuity window is reopened.
Resurrect(e) ==
    IF e.status = "Alta" \/ e.status = "Traslado"
    THEN [e EXCEPT !.status = "Hospitalizado",
                   !.dischargeDate = Undefined,
                   !.transferDate = Undefined]
    ELSE e

\* Mutant of ContinueWith: the day of the snapshot is not put in the history.
ContinueWithNoHistory(e0, snap) ==
    LET e == Resurrect(e0)
        e1 == [e EXCEPT
                 !.lastSeen = snap.date,
                 !.bedType = IF snap.bedType # "" THEN snap.bedType ELSE @,
                 !.isUPC = snap.isUPC,
                 !.wasEverUPC = IF snap.isUPC THEN TRUE ELSE @,
                 !.diagnosis = IF snap.diagnosis # ""
                                  /\ Len(snap.diagnosis) > Len(e.diagnosis)
                               THEN snap.diagnosis ELSE @]
    IN  IF snap.status = "DISCHARGED"
        THEN [e1 EXCEPT !.dischargeDate = snap.date, !.status = "Alta"]
        ELSE IF snap.status = "TRANSFERRED"
        THEN [e1 EXCEPT !.transferDate = snap.date, !.status = "Traslado"]
        ELSE e1

\* Mutant of ContinueWith: wasEverUPC follows the current snapshot.
ContinueWithNoLatch(e0, snap) ==
    LET e == Resurrect(e0)
        e1 == [e EXCEPT
                 !.lastSeen = snap.date,
                 !.history = Append(@, IsoDate(snap.date)),
                 !.bedType = IF snap.bedType # "" THEN snap.bedType ELSE @,
                 !.isUPC = snap.isUPC,
                 !.wasEverUPC = snap.isUPC,
                 !.diagnosis = IF snap.diagnosis # ""
                                  /\ Len(snap.diagnosis) > Len(e.diagnosis)
                               THEN snap.diagnosis ELSE @]
    IN  IF snap.status = "DISCHARGED"
        THEN [e1 EXCEPT !.dischargeDate = snap.date, !.status = "Alta"]
        ELSE IF snap.status = "TRANSFERRED"
        THEN [e1 EXCEPT !.transferDate = snap.date, !.status = "Traslado"]
        ELSE e1

\* CONTINUE EXISTING EVENT
ContinueWith(e0, snap) ==
    LET e == Resurrect(e0)
        e1 == [e EXCEPT
                 !.lastSeen = snap.date,
                 !.history = Append(@, IsoDate(snap.date)),
                 !.bedType = IF snap.bedType # "" THEN snap.bedType ELSE @,
                 !.isUPC = snap.isUPC,
                 !.wasEverUPC = IF snap.isUPC THEN TRUE ELSE @,
                 !.diagnosis = IF snap.diagnosis # ""
                                  /\ Len(snap.diagnosis) > Len(e.diagnosis)
                               THEN snap.diagnosis ELSE @]
    IN  IF snap.status = "DISCHARGED"
        THEN [e1 EXCEPT !.dischargeDate = snap.date, !.status = "Alta"]
        ELSE IF snap.status = "TRANSFERRED"
        THEN [e1 EXCEPT !.transferDate = snap.date, !.status = "Traslado"]
        ELSE e1

\* Mutant of IsAtGlobalEnd: every last event counts as still hospitalized.
AlwaysAtGlobalEnd(e, gmax) == TRUE

\* isAtGlobalEnd
IsAtGlobalEnd(e, gmax) == e.lastSeen = gmax

\* FINALIZE LAST EVENT
FinalizeEvent(e, gmax) ==
    IF e.status = "Hospitalizado"
    THEN IF IsAtGlobalEnd(e, gmax)
         THEN [e EXCEPT !.dischargeDate = Undefined,
                        !.status = "Hospitalizado",
                        !.los = LosBetween(e.firstSeen, e.lastSeen)]
         ELSE ImplicitDischarge(e)
    ELSE LET end1 == IF e.dischargeDate # Undefined THEN e.dischargeDate ELSE e.lastSeen
             end2 == IF e.transferDate # Undefined THEN e.transferDate ELSE end1
         IN  [e EXCEPT !.los = LosBetween(e.firstSeen, end2)]

\* if (!currentEvent || isGap)
OpensEvent(evs, cur, snap) ==
    IF cur = 0 THEN TRUE ELSE IsGap(snap.date, evs[cur].lastSeen)

\* START NEW EVENT OR CLOSE PREVIOUS: the hanging event, if still
\* Hospitalizado, gets its implicit discharge, and the new event is pushed.
StartNewEvent(evs, cur, patientKey, snap) ==
    Append(IF cur # 0 /\ IsGap(snap.date, evs[cur].lastSeen)
              /\ evs[cur].status = "Hospitalizado"
           THEN [evs EXCEPT ![cur] = ImplicitDischarge(@)]
           ELSE evs,
           NewEvent(patientKey, snap))

ContinueExistingEvent(evs, cur, snap) == [evs EXCEPT ![cur] = ContinueWith(@, snap)]

FinalizeLastEvent(evs, cur, gmax) ==
    IF cur # 0 THEN [evs EXCEPT ![cur] = FinalizeEvent(@, gmax)] ELSE evs

\* ------------------------------------------ reconcileSnapshots: as a function

\* The for loop over the consolidated snapshots of one group and the
\* finalization that follows it.
RECURSIVE SegmentLoop(_, _, _, _, _, _, _)
SegmentLoop(heap, patientKey, snaps, k, cur, evs, gmax) ==
    IF k > Len(snaps) THEN FinalizeLastEvent(evs, cur, gmax)
    ELSE IF OpensEvent(evs, cur, heap[snaps[k]])
         THEN SegmentLoop(heap, patientKey, snaps, k + 1, Len(evs) + 1,
                          StartNewEvent(evs, cur, patientKey, heap[snaps[k]]), gmax)
         ELSE SegmentLoop(heap, patientKey, snaps, k + 1, cur,
                          ContinueExistingEvent(evs, cur, heap[snaps[k]]), gmax)

\* patientGroups.forEach(...)
RECURSIVE ForEachGroup(_, _, _, _, _)
ForEachGroup(heap, groups, k, evs, gmax) ==
    IF k > Len(groups) THEN [events |-> evs, heap |-> heap]
    ELSE LET c == ConsolidateSameDay(heap, groups[k].snaps)
         IN  ForEachGroup(c.heap, groups, k + 1,
                          SegmentLoop(c.heap, groups[k].key, c.out, 1, 0, evs, gmax),
                          gmax)

\* The whole call on a list of snapshot objects: the events returned and
\* the snapshot objects as the call leaves them.
reconcileSnapshots(list) ==
    LET srt == SortByDate([k \in 1..Len(list) |-> k], list)
        map == BuildNameToRutMap(srt, list, EmptyMap)
        grp == GroupSnapshots(srt, list, map, <<>>)
    IN  ForEachGroup(grp.heap, grp.groups, 1, <<>>, GlobalMaxDate(srt, list))

\* ------------------------------------------------------------------ calendar

\* The year of day 1 (new Date(2025, 0, day)); months are counted from
\* January of that year, month m being month m % 12 of year FirstYear + m \div 12.
FirstYear == 2025

IsLeapYear(y) == (y % 4 = 0 /\ y % 100 # 0) \/ y % 400 = 0

DaysInMonth(m) ==
    IF m % 12 = 1 THEN (IF IsLeapYear(FirstYear + m \div 12) THEN 29 ELSE 28)
    ELSE IF m % 12 \in {3, 5, 8, 10} THEN 30
    ELSE 31

\* The day number of the first day of month m.
RECURSIVE FirstDayOfMonth(_)
FirstDayOfMonth(m) ==
    IF m = 0 THEN 1 ELSE FirstDayOfMonth(m - 1) + DaysInMonth(m - 1)

\* date.getFullYear() * 12 + date.getMonth(), from FirstYear, for day >= 1
MonthOfDay(day) ==
    CHOOSE m \in 0..(day \div 28) :
        FirstDayOfMonth(m) <= day /\ day < FirstDayOfMonth(m + 1)

\* new Date(year, month, day): local midnight
Midnight(day) == day * OneDay

\* new Date(y, m, 1)
MonthStart(m) == Midnight(FirstDayOfMonth(m))

\* new Date(y, m + 1, 0): midnight of the last day of month m
MonthEnd(m) == Midnight(FirstDayOfMonth(m + 1) - 1)

\* -------------------------------------------------- generateReportForPeriod

\* new Date(8640000000000000), in half-days
EndOfTime == 200000000

\* A reference to a Patient object: one of the events (copy = FALSE) or one
\* of the objects made by the reports (copy = TRUE).
Ref(isCopy, at) == [copy |-> isCopy, at |-> at]

Deref(evs, cps, r) == IF r.copy THEN cps[r.at] ELSE evs[r.at]

\* e.dischargeDate || e.transferDate
EventEnd(e) == IF e.dischargeDate # Undefined THEN e.dischargeDate ELSE e.transferDate

\* e.dischargeDate || e.transferDate || new Date(8640000000000000)
EventEndOrForever(e) == IF EventEnd(e) # Undefined THEN EventEnd(e) ELSE EndOfTime

\* Mutant of InPeriod: a transfer does not end the event.
InPeriodDischargeOnly(e, start, end) ==
    /\ e.firstSeen <= end
    /\ (IF e.dischargeDate # Undefined THEN e.dischargeDate ELSE EndOfTime) >= start

\* The filter of generateReportForPeriod.
InPeriod(e, start, end) == e.firstSeen <= end /\ EventEndOrForever(e) >= start

\* The indices of the events the filter keeps, in order.
RECURSIVE FilterPeriod(_, _, _, _)
FilterPeriod(evs, k, start, end) ==
    IF k > Len(evs) THEN <<>>
    ELSE (IF InPeriod(evs[k], start, end) THEN <<k>> ELSE <<>>)
         \o FilterPeriod(evs, k + 1, start, end)

\* Mutant of CopyEvents: the report keeps the events themselves.
NoCopy(evs, cps, idx) ==
    [copies |-> cps, refs |-> [j \in 1..Len(idx) |-> Ref(FALSE, idx[j])]]

\* .map(e => ({...e})): a new object per selected event.
CopyEvents(evs, cps, idx) ==
    [copies |-> cps \o [j \in 1..Len(idx) |-> evs[idx[j]]],
     refs |-> [j \in 1..Len(idx) |-> Ref(TRUE, Len(cps) + j)]]

\* The values the day cursor takes: start, start + 1 day, ... while <= end.
Cursors(start, end) ==
    { start + k * OneDay : k \in 0..((end - start) \div OneDay) }

NewDailyStats(d) ==
    [date |-> d, totalOccupancy |-> 0, upcOccupancy |-> 0, nonUpcOccupancy |-> 0,
     admissions |-> 0, discharges |-> 0, transfers |-> 0]

\* Initialize Daily Stats for the period: one entry per cursor day, stopping
\* at the first cursor later than the present time.
InitDailyStats(start, end, nw) ==
    [d \in { IsoDate(c) : c \in { c \in Cursors(start, end) : c <= nw } }
        |-> NewDailyStats(d)]


\* if (e.firstSeen >= start && e.firstSeen <= end)
AdmittedInPeriod(e, start, end) == e.firstSeen >= start /\ e.firstSeen <= end

\* if (eventEnd && eventEnd >= start && eventEnd <= end)
ExitInPeriod(e, start, end) ==
    EventEnd(e) # Undefined /\ EventEnd(e) >= start /\ EventEnd(e) <= end

\* Bed Day Calculation: the dates of the day cursors at which the event is
\* admitted (firstSeen <= dayCursor), not discharged (dayCursor < eventEnd)
\* and the date has daily stats.
BedDays(e, start, end, stats) ==
    { IsoDate(c) : c \in { c \in Cursors(start, end) :
                             /\ e.firstSeen <= c
                             /\ (EventEnd(e) = Undefined \/ c < EventEnd(e))
                             /\ IsoDate(c) \in DOMAIN stats } }

\* What one event adds to the daily stats.
CountEvent(stats, e, start, end) ==
    LET adm == AdmittedInPeriod(e, start, end)
        ext == ExitInPeriod(e, start, end)
        bed == BedDays(e, start, end, stats)
    IN  [d \in DOMAIN stats |->
           [stats[d] EXCEPT
              !.admissions = @ + (IF adm /\ d = IsoDate(e.firstSeen) THEN 1 ELSE 0),
              !.transfers = @ + (IF ext /\ d = IsoDate(EventEnd(e))
                                       /\ e.status = "Traslado" THEN 1 ELSE 0),
              !.discharges = @ + (IF ext /\ d = IsoDate(EventEnd(e))
                                        /\ e.status # "Traslado" THEN 1 ELSE 0),
              !.totalOccupancy = @ + (IF d \in bed THEN 1 ELSE 0),
              !.upcOccupancy = @ + (IF d \in bed /\ e.isUPC THEN 1 ELSE 0),
              !.nonUpcOccupancy = @ + (IF d \in bed /\ ~e.isUPC THEN 1 ELSE 0)]]

\* e.rut || e.name
RutOrName(e) == IF e.rut # "" THEN e.rut ELSE Join(e.name)

\* periodEvents.forEach: the counters, the daily stats, and the write of
\* daysInPeriod into the object the report holds.
RECURSIVE ReportLoop(_, _, _, _, _, _, _)
ReportLoop(evs, cps, refs, k, acc, start, end) ==
    IF k > Len(refs)
    THEN [events |-> evs, copies |-> cps, acc |-> acc]
    ELSE LET r == refs[k]
             e == Deref(evs, cps, r)
             days == Cardinality(BedDays(e, start, end, acc.stats))
             acc2 == [stats |-> CountEvent(acc.stats, e, start, end),
                      totalAdmissions |-> acc.totalAdmissions
                          + (IF AdmittedInPeriod(e, start, end) THEN 1 ELSE 0),
                      totalDischarges |-> acc.totalDischarges
                          + (IF ExitInPeriod(e, start, end) THEN 1 ELSE 0),
                      uniqueUPC |-> IF e.wasEverUPC
                                    THEN acc.uniqueUPC \cup {RutOrName(e)}
                                    ELSE acc.uniqueUPC]
         IN  ReportLoop(IF r.copy THEN evs
                        ELSE [evs EXCEPT ![r.at].daysInPeriod = days],
                        IF r.copy THEN [cps EXCEPT ![r.at].daysInPeriod = days]
                        ELSE cps,
                        refs, k + 1, acc2, start, end)

\* .sort((a, b) => a.date.localeCompare(b.date)) of a set of dates
RECURSIVE SortedSeq(_)
SortedSeq(S) ==
    IF S = {} THEN <<>>
    ELSE LET m == CHOOSE x \in S : \A y \in S : x <= y
         IN  <<m>> \o SortedSeq(S \ {m})

\* Mutant of ValidStats: only the days with an admission or a discharge.
ValidStatsNoOccupancy(stats) ==
    LET keep == { d \in DOMAIN stats : \/ stats[d].admissions > 0
                                       \/ stats[d].discharges > 0 }
    IN  [j \in 1..Cardinality(keep) |-> stats[SortedSeq(keep)[j]]]

\* The days kept in the report: some occupancy, admission or discharge.
ValidStats(stats) ==
    LET keep == { d \in DOMAIN stats : \/ stats[d].totalOccupancy > 0
                                       \/ stats[d].admissions > 0
                                       \/ stats[d].discharges > 0 }
    IN  [j \in 1..Cardinality(keep) |-> stats[SortedSeq(keep)[j]]]

RECURSIVE SumLos(_, _, _, _, _, _)
SumLos(evs, cps, refs, k, start, end) ==
    IF k > Len(refs) THEN [sum |-> 0, n |-> 0]
    ELSE LET rest == SumLos(evs, cps, refs, k + 1, start, end)
             e == Deref(evs, cps, refs[k])
         IN  IF ExitInPeriod(e, start, end)
             THEN [sum |-> rest.sum + e.los, n |-> rest.n + 1]
             ELSE rest

\* parseFloat((a / b).toFixed(1)), in tenths
ToFixed1(a, b) == (20 * a + b) \div (2 * b)

\* generateReportForPeriod(events, title, start, end) called at time nw, cps
\* being the Patient objects earlier reports hold: the report (none when no
\* event is in the period) and the objects as the call leaves them.
generateReportForPeriod(evs, cps, title, start, end, nw) ==
    LET sel == CopyEvents(evs, cps, FilterPeriod(evs, 1, start, end))
        run == ReportLoop(evs, sel.copies, sel.refs, 1,
                          [stats |-> InitDailyStats(start, end, nw),
                           totalAdmissions |-> 0, totalDischarges |-> 0,
                           uniqueUPC |-> {}],
                          start, end)
        los == SumLos(run.events, run.copies, sel.refs, 1, start, end)
    IN  IF Len(sel.refs) = 0
        THEN [null |-> TRUE, report |-> <<>>, events |-> evs, copies |-> cps]
        ELSE [null |-> FALSE,
              report |-> [title |-> title,
                          startDate |-> start,
                          endDate |-> end,
                          patients |-> sel.refs,
                          dailyStats |-> ValidStats(run.acc.stats),
                          totalAdmissions |-> run.acc.totalAdmissions,
                          totalDischarges |-> run.acc.totalDischarges,
                          totalUpcPatients |-> Cardinality(run.acc.uniqueUPC),
                          avgLOS |-> IF los.n > 0 THEN ToFixed1(los.sum, los.n) ELSE 0,
                          occupancyRate |-> 0],
              events |-> run.events,
              copies |-> run.copies]

\* ---------------------------------------------------- generateMonthlyReports

\* The number of reports generateMonthlyReports returns at most.
MaxReports == 36

\* minDate: the earliest firstSeen
MinDate(evs) ==
    CHOOSE t \in { evs[k].firstSeen : k \in 1..Len(evs) } :
        \A k \in 1..Len(evs) : t <= evs[k].firstSeen

\* lastSeen, or the discharge date when it is later
EndForRange(e) ==
    IF e.dischargeDate # Undefined /\ e.dischargeDate > e.lastSeen
    THEN e.dischargeDate ELSE e.lastSeen

\* maxDate
MaxDate(evs) ==
    CHOOSE t \in { EndForRange(evs[k]) : k \in 1..Len(evs) } :
        \A k \in 1..Len(evs) : EndForRange(evs[k]) <= t

\* reports.slice(-36)
SliceLast(s, n) == IF Len(s) <= n THEN s ELSE SubSeq(s, Len(s) - n + 1, Len(s))

\* ------------------------------------------------------ the parser's strings

\* A cell of a sheet, a sheet name and a file name are sequences of
\* characters; the empty sequence is an empty (or absent) cell.  The words
\* the parser looks for:
Words ==
    [ RUT |-> <<"R","U","T">>,
      RUN |-> <<"R","U","N">>,
      NOMBRE |-> <<"N","O","M","B","R","E">>,
      PACIENTE |-> <<"P","A","C","I","E","N","T","E">>,
      CAMA |-> <<"C","A","M","A">>,
      DIAG |-> <<"D","I","A","G">>,
      PATOLOGIA |-> <<"P","A","T","O","L","O","G","I","A">>,
      PATOLOGIAAcute |-> <<"P","A","T","O","L","O","G","Í","A">>,
      DIAGNOSTICO |-> <<"D","I","A","G","N","O","S","T","I","C","O">>,
      DG |-> <<"D","G">>,
      DIAGDot |-> <<"D","I","A","G",".">>,
      EDAD |-> <<"E","D","A","D">>,
      TIPO |-> <<"T","I","P","O">>,
      UPC |-> <<"U","P","C">>,
      UCI |-> <<"U","C","I">>,
      UTI |-> <<"U","T","I">>,
      SI |-> <<"S","I">>,
      X |-> <<"X">>,
      ALTAS |-> <<"A","L","T","A","S">>,
      NO |-> <<"N","O">>,
      TRASLADO |-> <<"T","R","A","S","L","A","D","O">>,
      TRASLAD |-> <<"T","R","A","S","L","A","D">>,
      DERIVADO |-> <<"D","E","R","I","V","A","D","O">>,
      NOMBREDELPACIENTE |-> <<"N","O","M","B","R","E"," ","D","E","L"," ","P","A","C","I","E","N","T","E">>,
      SERVICIODE |-> <<"S","E","R","V","I","C","I","O"," ","D","E">>,
      UNIDADDE |-> <<"U","N","I","D","A","D"," ","D","E">>,
      TIPODECAMA |-> <<"T","I","P","O"," ","D","E"," ","C","A","M","A">>,
      BLOQUEO |-> <<"B","L","O","Q","U","E","O">>,
      BLOQUEOCAMA |-> <<"B","L","O","Q","U","E","O"," ","C","A","M","A">>,
      AISLAMIENTO |-> <<"A","I","S","L","A","M","I","E","N","T","O">>,
      INDEFINIDO |-> <<"I","N","D","E","F","I","N","I","D","O">>,
      CMA |-> <<"C","M","A">>,
      CMADots |-> <<"C",".","M",".","A">>,
      CMADotsDot |-> <<"C",".","M",".","A",".">>,
      MAYORAMBULATORIA |-> <<"M","A","Y","O","R"," ","A","M","B","U","L","A","T","O","R","I","A">>,
      MEDIA |-> <<"M","E","D","I","A">>,
      CAMAMEDIA |-> <<"C","A","M","A"," ","M","E","D","I","A">>,
      MEDIO |-> <<"M","E","D","I","O">> ]

\* SPANISH_MONTHS: the name of month k - 1 (0-indexed) is SPANISH_MONTHS[k].
SPANISH_MONTHS ==
    << <<"E","N","E","R","O">>,
       <<"F","E","B","R","E","R","O">>,
       <<"M","A","R","Z","O">>,
       <<"A","B","R","I","L">>,
       <<"M","A","Y","O">>,
       <<"J","U","N","I","O">>,
       <<"J","U","L","I","O">>,
       <<"A","G","O","S","T","O">>,
       <<"S","E","P","T","I","E","M","B","R","E">>,
       <<"O","C","T","U","B","R","E">>,
       <<"N","O","V","I","E","M","B","R","E">>,
       <<"D","I","C","I","E","M","B","R","E">> >>

\* s.toUpperCase()
ToUpper(s) == [k \in 1..Len(s) |-> ToUpperChar(s[k])]

\* s.includes(w)
Includes(s, w) ==
    \E k \in 0..(Len(s) - Len(w)) : SubSeq(s, k + 1, k + Len(w)) = w

\* s.startsWith(w)
StartsWith(s, w) == Len(s) >= Len(w) /\ SubSeq(s, 1, Len(w)) = w

\* row.join(' '): an absent cell gives the empty string.
RECURSIVE JoinCells(_)
JoinCells(row) ==
    IF row = <<>> THEN <<>>
    ELSE IF Len(row) = 1 THEN row[1]
    ELSE Head(row) \o <<" ">> \o JoinCells(Tail(row))

\* normalizeName, as characters.
NormalizedChars(name) ==
    Trim(CollapseSpaces(KeepLetters(
        [k \in 1..Len(name) |-> StripAccent(ToUpperChar(name[k]))])))

Digits == <<"0","1","2","3","4","5","6","7","8","9">>

IsDigit(c) == IndexIn(c, Digits) # 0

\* parseInt(s, 10) of a string of digits
RECURSIVE ParseInt(_)
ParseInt(s) ==
    IF s = <<>> THEN 0
    ELSE ParseInt(SubSeq(s, 1, Len(s) - 1)) * 10 + IndexIn(s[Len(s)], Digits) - 1

\* [\s.\-/]
IsSeparator(c) == c \in {" ", ".", "-", "/"}

\* The number of digits, and of separators, in a row from position k.
RECURSIVE DigitRun(_, _)
DigitRun(s, k) ==
    IF k <= Len(s) /\ IsDigit(s[k]) THEN 1 + DigitRun(s, k + 1) ELSE 0

RECURSIVE SeparatorRun(_, _)
SeparatorRun(s, k) ==
    IF k <= Len(s) /\ IsSeparator(s[k]) THEN 1 + SeparatorRun(s, k + 1) ELSE 0

Min(a, b) == IF a <= b THEN a ELSE b

\* cleanRut: .replace(/[^0-9kK]/g, '').toUpperCase().replace(/^0+/, '')
RECURSIVE KeepRutChars(_)
KeepRutChars(s) ==
    IF s = <<>> THEN <<>>
    ELSE IF IsDigit(Head(s)) \/ Head(s) \in {"k", "K"}
         THEN <<Head(s)>> \o KeepRutChars(Tail(s))
         ELSE KeepRutChars(Tail(s))

RECURSIVE StripLeadingZeros(_)
StripLeadingZeros(s) ==
    IF s # <<>> /\ Head(s) = "0" THEN StripLeadingZeros(Tail(s)) ELSE s

cleanRut(rut) ==
    IF rut = <<>> THEN ""
    ELSE Join(StripLeadingZeros(ToUpper(KeepRutChars(rut))))

\* ------------------------------------------------- date parsing and context

\* str.match(/(\d{1,2})[\s.\-/]+(\d{1,2})(?:[\s.\-/]+(\d{2,4}))?/): the
\* leftmost match from position k on, found from left to right.  The first
\* number is a run of one or two digits that separators follow (a digit
\* inside a longer run has a digit after it, not a separator); the second
\* takes up to two digits; the third, after separators, two to four; p3 is
\* Undefined when the third number is absent, and null says no match.
RECURSIVE MatchFrom(_, _)
RECURSIVE TryFirst(_, _, _)
RECURSIVE TrySeparators(_, _, _, _)
RECURSIVE TrySecond(_, _, _, _, _)

WithThird(s, k, len1, at2, len2, at3, run3) ==
    [null |-> FALSE,
     p1 |-> ParseInt(SubSeq(s, k, k + len1 - 1)),
     p2 |-> ParseInt(SubSeq(s, at2, at2 + len2 - 1)),
     p3 |-> IF run3 >= 2 THEN ParseInt(SubSeq(s, at3, at3 + Min(4, run3) - 1))
            ELSE Undefined]

AfterSecond(s, k, len1, at2, len2, seps) ==
    WithThird(s, k, len1, at2, len2, at2 + len2 + seps,
              IF seps >= 1 THEN DigitRun(s, at2 + len2 + seps) ELSE 0)

TrySecond(s, k, len1, at2, run2) ==
    IF run2 >= 1
    THEN AfterSecond(s, k, len1, at2, Min(2, run2), SeparatorRun(s, at2 + Min(2, run2)))
    ELSE MatchFrom(s, k + 1)

TrySeparators(s, k, len1, seps) ==
    IF seps >= 1
    THEN TrySecond(s, k, len1, k + len1 + seps, DigitRun(s, k + len1 + seps))
    ELSE MatchFrom(s, k + 1)

TryFirst(s, k, run1) ==
    IF run1 \in {1, 2}
    THEN TrySeparators(s, k, run1, SeparatorRun(s, k + run1))
    ELSE MatchFrom(s, k + 1)

MatchFrom(s, k) ==
    IF k > Len(s)
    THEN [null |-> TRUE, p1 |-> 0, p2 |-> 0, p3 |-> Undefined]
    ELSE TryFirst(s, k, DigitRun(s, k))

extractDateParts(str) == MatchFrom(str, 1)

\* upper.match(/(202\d)/): the year, Undefined without a match.
RECURSIVE YearFrom(_, _)
YearFrom(upper, k) ==
    IF k + 3 > Len(upper) THEN Undefined
    ELSE IF SubSeq(upper, k, k + 2) = <<"2", "0", "2">> /\ IsDigit(upper[k + 3])
    THEN ParseInt(SubSeq(upper, k, k + 3))
    ELSE YearFrom(upper, k + 1)

\* The first month name, in the order of SPANISH_MONTHS, that the file name
\* contains; month and year are Undefined (null) when the name has none.
MonthInName(upper) ==
    IF \E k \in 1..Len(SPANISH_MONTHS) : Includes(upper, SPANISH_MONTHS[k])
    THEN (CHOOSE k \in 1..Len(SPANISH_MONTHS) :
              /\ Includes(upper, SPANISH_MONTHS[k])
              /\ \A j \in 1..k - 1 : ~Includes(upper, SPANISH_MONTHS[j])) - 1
    ELSE Undefined

ContextOfUpper(upper) == [month |-> MonthInName(upper), year |-> YearFrom(upper, 1)]

getContextFromFilename(filename) == ContextOfUpper(ToUpper(filename))

\* The day number of new Date(year, month, day), month 0-indexed; a month
\* past December or a day past the month's end rolls over as in JavaScript.
DateDay(year, month, day) ==
    FirstDayOfMonth((year - FirstYear) * 12 + month) + day - 1

\* date.getFullYear()
YearOf(t) == FirstYear + MonthOfDay(IsoDate(t)) \div 12

\* Normalize Year
YearOfParts(parts, contextYear) ==
    IF parts.p3 # Undefined
    THEN (IF parts.p3 < 100 THEN parts.p3 + 2000 ELSE parts.p3)
    ELSE contextYear

\* Mutant of DateOfParts: always day first, month second.
DateOfPartsDayFirst(parts, year, contextMonth) ==
    Noon(DateDay(year, parts.p2 - 1, parts.p1))

\* DISAMBIGUATION LOGIC, new Date(year, month, day) and FORCE NOON.
DateOfParts(parts, year, contextMonth) ==
    IF contextMonth # Undefined
    THEN (IF parts.p2 = contextMonth + 1
          THEN Noon(DateDay(year, parts.p2 - 1, parts.p1))
          ELSE IF parts.p1 = contextMonth + 1
          THEN Noon(DateDay(year, parts.p1 - 1, parts.p2))
          ELSE Noon(DateDay(year, parts.p2 - 1, parts.p1)))
    ELSE Noon(DateDay(year, parts.p2 - 1, parts.p1))

DateOfMatch(parts, context) ==
    IF parts.null THEN Undefined
    ELSE DateOfParts(parts, YearOfParts(parts, context.year), context.month)

\* parseExcelDate of a string (a sheet name): the date at 12:00, Undefined
\* for null.
parseExcelDate(excelDate, context) ==
    IF excelDate = <<>> THEN Undefined
    ELSE DateOfMatch(extractDateParts(excelDate), context)

\* The sheet names that carry a year, given the parts of every name.
NamesWithYear(parts) ==
    { k \in 1..Len(parts) : ~parts[k].null /\ parts[k].p3 # Undefined }

\* The key of a table of counts with the largest count, the smallest such
\* key on a tie (Object.entries lists integer keys in ascending order).
MostFrequent(counts) ==
    CHOOSE y \in DOMAIN counts :
        \A z \in DOMAIN counts :
            counts[z] < counts[y] \/ (counts[z] = counts[y] /\ y <= z)

\* dominantYear: the year most sheet names carry, else the year of the file
\* name, else the current year.
DominantYear(parts, fileYear, nw) ==
    LET yearOf(k) == YearOfParts(parts[k], Undefined)
        count(y) == Cardinality({ k \in NamesWithYear(parts) : yearOf(k) = y })
    IN  IF NamesWithYear(parts) = {}
        THEN (IF fileYear # Undefined THEN fileYear ELSE YearOf(nw))
        ELSE MostFrequent([y \in { yearOf(k) : k \in NamesWithYear(parts) } |-> count(y)])

\* dominantMonth: the month of the file name, else the month most sheet
\* names with a year carry, else null.
DominantMonth(parts, fileMonth) ==
    LET withMonth == { k \in NamesWithYear(parts) : parts[k].p2 - 1 \in 0..11 }
        count(m) == Cardinality({ k \in withMonth : parts[k].p2 - 1 = m })
    IN  IF fileMonth # Undefined THEN fileMonth
        ELSE IF withMonth = {} THEN Undefined
        ELSE MostFrequent([m \in { parts[k].p2 - 1 : k \in withMonth } |-> count(m)])

ContextOf(parts, fileContext, nw) ==
    [year |-> DominantYear(parts, fileContext.year, nw),
     month |-> DominantMonth(parts, fileContext.month)]

\* 1. Establish Context
GlobalContext(file, nw) ==
    ContextOf([k \in 1..Len(file.sheets) |-> extractDateParts(file.sheets[k].name)],
              getContextFromFilename(file.name), nw)

\* The sheets in date order (a stable sort).
SortSheetsByDate(dated) ==
    [j \in 1..Cardinality({ k \in 1..Len(dated) : dated[k].date # Undefined }) |->
        dated[SortByDate(SortedSeq({ k \in 1..Len(dated) : dated[k].date # Undefined }),
                         dated)[j]]]

\* 2. Sort Sheets Chronologically: the sheets whose name gives a date.
SheetsWithDates(file, context) ==
    SortSheetsByDate([k \in 1..Len(file.sheets) |->
                         [name |-> file.sheets[k].name, sheet |-> k,
                          date |-> parseExcelDate(file.sheets[k].name, context)]])

\* ------------------------------------------------------ the rows of a sheet

isHeaderRow(row) ==
    LET str == ToUpper(JoinCells(row))
        hasRut == Includes(str, Words.RUT)
        hasName == Includes(str, Words.PACIENTE) \/ Includes(str, Words.NOMBRE)
        hasBed == Includes(str, Words.CAMA)
        hasDiag == \/ Includes(str, Words.DIAG)
                   \/ Includes(str, Words.PATOLOGIA)
                   \/ Includes(str, Words.PATOLOGIAAcute)
    IN  (hasRut /\ (hasName \/ hasDiag)) \/ (hasBed /\ hasName)

isUPC(val) ==
    /\ val # <<>>
    /\ LET s == ToUpper(val)
       IN  \/ s = Words.SI
           \/ s = Words.X
           \/ Includes(s, Words.UPC)
           \/ Includes(s, Words.UCI)
           \/ Includes(s, Words.UTI)

\* A block marker is looked for in rows shorter than this.
MarkerMaxLen == 200

\* The block a marker row switches to, "" for a row that is no marker.
MarkerBlock(row) ==
    LET rowStr == ToUpper(JoinCells(row)) IN
    IF Len(rowStr) < MarkerMaxLen /\ Includes(rowStr, Words.ALTAS) /\ ~Includes(rowStr, Words.NO)
    THEN "DISCHARGED"
    ELSE IF /\ Len(rowStr) < MarkerMaxLen
            /\ (\/ Includes(rowStr, Words.TRASLADO)
                \/ Includes(rowStr, Words.TRASLAD)
                \/ Includes(rowStr, Words.DERIVADO))
    THEN "TRANSFERRED"
    ELSE ""

ColumnKeys == {"RUT", "NAME", "AGE", "BEDTYPE", "UPC", "DIAG"}

\* The label c (upper case, trimmed) of a header cell names column key.
LabelMatches(key, c) ==
    CASE key = "RUT" -> Includes(c, Words.RUT)
      [] key = "NAME" -> Includes(c, Words.PACIENTE) \/ Includes(c, Words.NOMBRE)
      [] key = "AGE" -> Includes(c, Words.EDAD)
      [] key = "BEDTYPE" -> Includes(c, Words.TIPO)
      [] key = "UPC" -> Includes(c, Words.UPC)
      [] key = "DIAG" -> \/ Includes(c, Words.PATOLOGIA)
                         \/ Includes(c, Words.PATOLOGIAAcute)
                         \/ Includes(c, Words.DIAGNOSTICO)
                         \/ c = Words.DIAG
                         \/ c = Words.DG
                         \/ c = Words.DIAGDot

EmptyColMap == [key \in {} |-> 0]

\* row.forEach((cell, idx) => ...): each key gets the last column whose
\* label matches; columns are counted from 1.
BuildColMap(row) ==
    LET cols(key) == { idx \in 1..Len(row) :
                           LabelMatches(key, Trim(ToUpper(row[idx]))) }
    IN  [key \in { key \in ColumnKeys : cols(key) # {} } |->
            CHOOSE idx \in cols(key) : \A j \in cols(key) : j <= idx]

\* row[colMap[key]], the empty cell when the column or the cell is absent.
CellAt(row, cm, key) ==
    IF key \in DOMAIN cm /\ cm[key] <= Len(row) THEN row[cm[key]] ELSE <<>>

\* String(cell || '').toUpperCase().trim()
CheckOf(cell) == Trim(ToUpper(cell))

\* Mutant of IsGhostHeader: repeated headers are not filtered.
NoGhostHeader(nameCheck, rutCheck) == FALSE

\* Lines 237-240: a repeated header row.
IsGhostHeader(nameCheck, rutCheck) ==
    \/ nameCheck = Words.NOMBRE
    \/ Includes(nameCheck, Words.NOMBREDELPACIENTE)
    \/ nameCheck = Words.PACIENTE
    \/ rutCheck = Words.RUT
    \/ rutCheck = Words.RUN

\* Lines 242-243: a service, unit or bed label in the name column.
IsLabelRow(nameCheck) ==
    \/ Includes(nameCheck, Words.SERVICIODE)
    \/ Includes(nameCheck, Words.UNIDADDE)
    \/ Includes(nameCheck, Words.CAMA)
    \/ Includes(nameCheck, Words.TIPODECAMA)

\* Line 247: a blocked bed.
IsBlockedBed(nameNorm) ==
    \/ StartsWith(nameNorm, Words.BLOQUEO)
    \/ Includes(nameNorm, Words.BLOQUEOCAMA)
    \/ Includes(nameNorm, Words.AISLAMIENTO)

\* Lines 236-248: the row is skipped.
IsFiltered(row, cm) ==
    LET nameRaw == CellAt(row, cm, "NAME")
        nameCheck == CheckOf(nameRaw)
        rutCheck == CheckOf(CellAt(row, cm, "RUT"))
        nameNorm == NormalizedChars(nameRaw)
    IN  \/ nameRaw = <<>>
        \/ IsGhostHeader(nameCheck, rutCheck)
        \/ IsLabelRow(nameCheck)
        \/ IsBlockedBed(nameNorm)
        \/ nameNorm = <<>>

\* Lines 252-254: the bed type.
BedTypeOf(cell) ==
    LET raw == IF cell # <<>> THEN ToUpper(Trim(cell)) ELSE Words.INDEFINIDO
    IN  IF raw = Words.CMADots \/ raw = Words.CMADotsDot \/ Includes(raw, Words.MAYORAMBULATORIA)
        THEN Join(Words.CMA)
        ELSE IF raw = Words.MEDIA \/ raw = Words.CAMAMEDIA \/ raw = Words.MEDIO
        THEN Join(Words.MEDIA)
        ELSE Join(raw)

\* Lines 256-265: the snapshot of a patient row.
RowSnapshot(row, cm, block, currentDate, fileName) ==
    [date |-> currentDate,
     rut |-> cleanRut(CellAt(row, cm, "RUT")),
     name |-> Trim(CellAt(row, cm, "NAME")),
     diagnosis |-> Join(Trim(CellAt(row, cm, "DIAG"))),
     bedType |-> BedTypeOf(CellAt(row, cm, "BEDTYPE")),
     isUPC |-> isUPC(CellAt(row, cm, "UPC")),
     status |-> IF block = "NONE" THEN "HOSPITALIZED" ELSE block,
     sourceFile |-> Join(fileName)]

\* Mutant of BlockAtHeader: the header leaves the block as it is.
BlockKeptAtHeader(block) == block

\* Line 214: Reset block to Hospitalized when finding main header.
BlockAtHeader(block) == "HOSPITALIZED"

\* ------------------------------------------------ generateMonthlyReports

\* The loop of lines 341-354 and the return of line 356.
RECURSIVE MonthlyLoop(_, _, _, _, _, _)
MonthlyLoop(evs, cps, iter, maxD, reps, nw) ==
    IF MonthStart(iter) > maxD
    THEN [reports |-> SliceLast(reps, MaxReports), events |-> evs, copies |-> cps]
    ELSE LET r == generateReportForPeriod(evs, cps, iter, MonthStart(iter),
                                          MonthEnd(iter), nw)
         IN  MonthlyLoop(r.events, r.copies, iter + 1, maxD,
                         IF r.null THEN reps ELSE Append(reps, r.report), nw)

generateMonthlyReports(evs, cps, nw) ==
    IF Len(evs) = 0
    THEN [reports |-> <<>>, events |-> evs, copies |-> cps]
    ELSE MonthlyLoop(evs, cps, MonthOfDay(IsoDate(MinDate(evs))), MaxDate(evs),
                     <<>>, nw)

\* ------------------------------------------------------------------- state

VARIABLES
    input,          \* the snapshots as they were when reconcileSnapshots was called
    snapshots,      \* the snapshot objects (the list given to reconcileSnapshots)
    pc,             \* position in reconcileSnapshots
    sorted,         \* indices of the snapshots in date order
    globalMaxDate,
    nameToRutMap,
    patientGroups,  \* sequence of [key, snaps] in insertion order
    g,              \* position of patientGroups.forEach
    patientSnaps,   \* consolidated snapshots of the current group
    i,              \* loop index into patientSnaps (from 1)
    currentEvent,   \* index into events, 0 for null
    events,
    now,            \* new Date() when the reports are generated
    minDate,        \* generateMonthlyReports: earliest firstSeen
    maxDate,        \* generateMonthlyReports: latest lastSeen or dischargeDate
    currentIter,    \* generateMonthlyReports: the month of the loop
    copies,         \* the Patient objects made by generateReportForPeriod
    reports,        \* generateMonthlyReports: the reports so far
    files,          \* handleFileUpload: the files of the upload
    fileIdx,        \* the file being parsed (from 1)
    globalContext,  \* parseExcelToSnapshots: year and month of the file
    sheetsWithDates,
    sheetIdx,       \* position of sheetsWithDates.forEach (from 1)
    rowIdx,         \* the row loop's i (from 1)
    currentBlock,
    headerFound,
    colMap,
    fileSnapshots,  \* parseExcelToSnapshots: the snapshots of the file so far
    newSnapshotsArrays, \* the settled promises, one per file
    allSnapshots,   \* the application's accumulated snapshots
    selectedReport, \* <<>> for null, else <<the report object>>
    loading,
    error,          \* "" for null
    closure,        \* allSnapshots and selectedReport as the call at hand sees them
    pending,        \* the calls made while another call was in flight
    started         \* the number of calls of handleFileUpload so far

\* The variables of reconcileSnapshots other than pc and events, and those
\* of the report generation.
reconcileVars == <<input, snapshots, sorted, globalMaxDate, nameToRutMap,
                   patientGroups, g, patientSnaps, i, currentEvent>>

reportVars == <<now, minDate, maxDate, currentIter, copies, reports>>

\* The variables of parseExcelToSnapshots, and those of handleFileUpload.
parseVars == <<globalContext, sheetsWithDates, sheetIdx, rowIdx, currentBlock,
               headerFound, colMap, fileSnapshots>>

uploadVars == <<files, fileIdx, newSnapshotsArrays, allSnapshots, selectedReport,
                loading, error, closure, pending, started>>

vars == <<input, snapshots, pc, sorted, globalMaxDate, nameToRutMap,
          patientGroups, g, patientSnaps, i, currentEvent, events,
          now, minDate, maxDate, currentIter, copies, reports,
          globalContext, sheetsWithDates, sheetIdx, rowIdx, currentBlock,
          headerFound, colMap, fileSnapshots,
          files, fileIdx, newSnapshotsArrays, allSnapshots, selectedReport,
          loading, error, closure, pending, started>>

\* No upload is being parsed.
NoUpload ==
    /\ files = <<>>
    /\ fileIdx = 0
    /\ globalContext = [year |-> Undefined, month |-> Undefined]
    /\ sheetsWithDates = <<>>
    /\ sheetIdx = 0
    /\ rowIdx = 0
    /\ currentBlock = "NONE"
    /\ headerFound = FALSE
    /\ colMap = EmptyColMap
    /\ fileSnapshots = <<>>
    /\ newSnapshotsArrays = <<>>
    /\ allSnapshots = <<>>
    /\ selectedReport = <<>>
    /\ closure = [allSnapshots |-> <<>>, selectedReport |-> <<>>]
    /\ pending = <<>>
    /\ started = 0
    /\ loading = FALSE
    /\ error = ""

\* The state at the call of reconcileSnapshots(list), the reports being
\* generated at time t.
CallWith(list, t) ==
    /\ input = list
    /\ snapshots = list
    /\ pc = "call"
    /\ sorted = <<>>
    /\ globalMaxDate = Undefined
    /\ nameToRutMap = EmptyMap
    /\ patientGroups = <<>>
    /\ g = 0
    /\ patientSnaps = <<>>
    /\ i = 0
    /\ currentEvent = 0
    /\ events = <<>>
    /\ now = t
    /\ minDate = Undefined
    /\ maxDate = Undefined
    /\ currentIter = 0
    /\ copies = <<>>
    /\ reports = <<>>
    /\ NoUpload

\* The list given to reconcileSnapshots: at most MaxSnaps snapshots on days
\* 1..MaxDay, in ascending date order (the order the function's first step,
\* a stable sort by date, gives any list); snapshots of the same date come
\* in any order.
Init ==
    /\ \E n \in 0..MaxSnaps : \E days \in SortedDays(n) : \E rows \in [1..n -> Rows] :
          input = [k \in 1..n |-> MakeSnapshot(days[k], rows[k])]
    /\ snapshots = input
    /\ pc = "call"
    /\ sorted = <<>>
    /\ globalMaxDate = Undefined
    /\ nameToRutMap = EmptyMap
    /\ patientGroups = <<>>
    /\ g = 0
    /\ patientSnaps = <<>>
    /\ i = 0
    /\ currentEvent = 0
    /\ events = <<>>
    /\ now = Now
    /\ minDate = Undefined
    /\ maxDate = Undefined
    /\ currentIter = 0
    /\ copies = <<>>
    /\ reports = <<>>
    /\ NoUpload

\* The same call on rows that need identity resolution.
InitRepair ==
    \E n \in 0..MaxSnaps : \E days \in SortedDays(n) : \E rows \in [1..n -> RepairRows] :
        CallWith([k \in 1..n |-> MakeSnapshot(days[k], rows[k])], Now)

\* Lines 9-47: sort, globalMaxDate, identity map, grouping.
Group ==
    /\ pc = "call"
    /\ LET srt == SortByDate([k \in 1..Len(snapshots) |-> k], snapshots)
           map == BuildNameToRutMap(srt, snapshots, EmptyMap)
           grp == GroupSnapshots(srt, snapshots, map, <<>>)
       IN  /\ sorted' = srt
           /\ globalMaxDate' = GlobalMaxDate(srt, snapshots)
           /\ nameToRutMap' = map
           /\ snapshots' = grp.heap
           /\ patientGroups' = grp.groups
    /\ g' = 1
    /\ events' = <<>>
    /\ pc' = "forEach"
    /\ UNCHANGED <<input, patientSnaps, i, currentEvent>>
    /\ UNCHANGED <<reportVars, parseVars, uploadVars>>

\* Lines 49-85: the next group is sorted and its same-day snapshots merged.
Consolidate ==
    /\ pc = "forEach"
    /\ g <= Len(patientGroups)
    /\ LET c == ConsolidateSameDay(snapshots, patientGroups[g].snaps)
       IN  /\ snapshots' = c.heap
           /\ patientSnaps' = c.out
    /\ currentEvent' = 0
    /\ i' = 1
    /\ pc' = "loop"
    /\ UNCHANGED <<input, sorted, globalMaxDate, nameToRutMap, patientGroups, g, events>>
    /\ UNCHANGED <<reportVars, parseVars, uploadVars>>

\* Lines 107-153: no current event, or a gap: close the hanging event and
\* open a new one.
StartEvent ==
    /\ pc = "loop"
    /\ i <= Len(patientSnaps)
    /\ OpensEvent(events, currentEvent, snapshots[patientSnaps[i]])
    /\ events' = StartNewEvent(events, currentEvent, patientGroups[g].key,
                               snapshots[patientSnaps[i]])
    /\ currentEvent' = Len(events) + 1
    /\ i' = i + 1
    /\ UNCHANGED <<input, snapshots, pc, sorted, globalMaxDate, nameToRutMap,
                   patientGroups, g, patientSnaps>>
    /\ UNCHANGED <<reportVars, parseVars, uploadVars>>

\* Lines 154-185: the snapshot continues the current event.
ContinueEvent ==
    /\ pc = "loop"
    /\ i <= Len(patientSnaps)
    /\ currentEvent # 0
    /\ ~OpensEvent(events, currentEvent, snapshots[patientSnaps[i]])
    /\ events' = ContinueExistingEvent(events, currentEvent, snapshots[patientSnaps[i]])
    /\ i' = i + 1
    /\ UNCHANGED <<input, snapshots, pc, sorted, globalMaxDate, nameToRutMap,
                   patientGroups, g, patientSnaps, currentEvent>>
    /\ UNCHANGED <<reportVars, parseVars, uploadVars>>

\* Lines 188-214: after the group's last snapshot.
Finalize ==
    /\ pc = "loop"
    /\ i > Len(patientSnaps)
    /\ events' = FinalizeLastEvent(events, currentEvent, globalMaxDate)
    /\ g' = g + 1
    /\ pc' = "forEach"
    /\ UNCHANGED <<input, snapshots, sorted, globalMaxDate, nameToRutMap,
                   patientGroups, patientSnaps, i, currentEvent>>
    /\ UNCHANGED <<reportVars, parseVars, uploadVars>>

\* Line 217: return events.
Return ==
    /\ pc = "forEach"
    /\ g > Len(patientGroups)
    /\ pc' = "done"
    /\ UNCHANGED <<input, snapshots, sorted, globalMaxDate, nameToRutMap,
                   patientGroups, g, patientSnaps, i, currentEvent, events>>
    /\ UNCHANGED <<reportVars, parseVars, uploadVars>>

Next == Group \/ Consolidate \/ StartEvent \/ ContinueEvent \/ Finalize \/ Return

Spec == Init /\ [][Next]_vars

SpecRepair == InitRepair /\ [][Next]_vars

\* --------------------------------------------- the upload handler's reports

\* The days of the census sheets of an upload around the end of January:
\* MaxDay consecutive days, February 1st being one of the last.
ReportDays ==
    { FirstDayOfMonth(1) - 2 - MaxDay \div 2 + d : d \in 1..MaxDay }

\* The rows of those sheets: patient 1-9 in any block, patient 2-9
\* hospitalized in a critical-care bed.
ReportRows ==
    { [name |-> John, rut |-> "1-9", status |-> st, upc |-> FALSE] :
          st \in SnapshotStatus }
    \cup { [name |-> Jane, rut |-> "2-9", status |-> "HOSPITALIZED", upc |-> TRUE] }

\* The reports are generated the day after the last of those days.
ReportNow ==
    Noon(1 + CHOOSE d \in ReportDays : \A x \in ReportDays : x <= d)

\* handleFileUpload: the snapshots of the uploaded sheets, in date order.
InitReport ==
    \E n \in 0..MaxSnaps :
      \E days \in { d \in [1..n -> ReportDays] : \A k \in 1..n - 1 : d[k] <= d[k + 1] } :
        \E rows \in [1..n -> ReportRows] :
          CallWith([k \in 1..n |-> MakeSnapshot(days[k], rows[k])], ReportNow)

\* generateMonthlyReports, lines 325-339: no events, no reports; else the
\* range of the events and the first month of the loop.
BeginMonthly ==
    /\ pc = "done"
    /\ reports' = <<>>
    /\ IF Len(events) = 0
       THEN /\ pc' = "reported"
            /\ UNCHANGED <<minDate, maxDate, currentIter>>
       ELSE /\ pc' = "months"
            /\ minDate' = MinDate(events)
            /\ maxDate' = MaxDate(events)
            /\ currentIter' = MonthOfDay(IsoDate(MinDate(events)))
    /\ UNCHANGED <<reconcileVars, events, now, copies>>
    /\ UNCHANGED <<parseVars, uploadVars>>

\* Lines 341-354: one month of the loop: its report, if any, is pushed.
MonthReport ==
    /\ pc = "months"
    /\ MonthStart(currentIter) <= maxDate
    /\ LET r == generateReportForPeriod(events, copies, currentIter,
                                        MonthStart(currentIter),
                                        MonthEnd(currentIter), now)
       IN  /\ reports' = IF r.null THEN reports ELSE Append(reports, r.report)
           /\ events' = r.events
           /\ copies' = r.copies
    /\ currentIter' = currentIter + 1
    /\ UNCHANGED <<reconcileVars, pc, now, minDate, maxDate>>
    /\ UNCHANGED <<parseVars, uploadVars>>

\* Line 356: return reports.slice(-36).
ReturnMonthly ==
    /\ pc = "months"
    /\ MonthStart(currentIter) > maxDate
    /\ reports' = SliceLast(reports, MaxReports)
    /\ pc' = "reported"
    /\ UNCHANGED <<reconcileVars, events, now, minDate, maxDate, currentIter, copies>>
    /\ UNCHANGED <<parseVars, uploadVars>>

NextReport == Next \/ BeginMonthly \/ MonthReport \/ ReturnMonthly

SpecReport == InitReport /\ [][NextReport]_vars

\* Census rows of critical-care patients: Jane, whose rut is never known
\* and whose name is typed in two ways, and patient 1-9.
JaneCaps == <<"J","A","N","E">>

UpcRows ==
    { [name |-> Jane, rut |-> "", status |-> "HOSPITALIZED", upc |-> TRUE],
      [name |-> JaneCaps, rut |-> "", status |-> "HOSPITALIZED", upc |-> TRUE],
      [name |-> John, rut |-> "1-9", status |-> "HOSPITALIZED", upc |-> TRUE] }

\* handleFileUpload on sheets of those rows, all of one month.
InitUpc ==
    \E n \in 0..MaxSnaps : \E days \in SortedDays(n) : \E rows \in [1..n -> UpcRows] :
        CallWith([k \in 1..n |-> MakeSnapshot(days[k], rows[k])], Now)

SpecUpc == InitUpc /\ [][NextReport]_vars

\* ------------------------------------------- the upload: parsing and ingestion

\* The number of rows of a sheet, at most.
MaxRows == 3

\* The largest number written in a sheet name.
MaxPart == 12

\* A sheet name "p1-p2", two digits each.
Pad2(n) == <<Digits[(n \div 10) + 1], Digits[(n % 10) + 1]>>

SheetName(p1, p2) == Pad2(p1) \o <<"-">> \o Pad2(p2)

Camacho == <<"C","a","m","a","c","h","o">>

\* The rows of a census sheet: the header, the marker of the discharged
\* block, the header of the transferred block (its last column is the
\* destination, which makes it the marker of that block), and three
\* patients: John with rut and diagnosis, Jane in a critical-care bed with
\* neither, and Camacho.
HeaderRow == <<Words.RUT, Words.NOMBRE, Words.DIAGNOSTICO, Words.UPC>>

AltasRow == <<Words.ALTAS>>

SubHeaderRow == <<Words.RUT, Words.NOMBRE, Words.DIAGNOSTICO, Words.TRASLADO>>

JohnRow == <<<<"1","1",".","1","1","1","-","1">>, John, <<"D","x">>>>

JaneRow == <<<<>>, Jane, <<>>, Words.SI>>

CamachoRow == <<<<"2","2",".","2","2","2","-","2">>, Camacho, <<"D","x">>>>

SheetRows ==
    {HeaderRow, AltasRow, SubHeaderRow, JohnRow, JaneRow, CamachoRow}

\* The files of an upload.  A census workbook of January 2025 whose sheet
\* of the 3rd comes before its sheet of the 2nd, the latter with any rows;
\* a file that cannot be read; a second workbook; a workbook without a
\* dated sheet.
CensusName == <<"E","n","e","r","o"," ","2","0","2","5">>

CensusFile(rows) ==
    [name |-> CensusName, readable |-> TRUE,
     sheets |-> <<[name |-> SheetName(3, 1), rows |-> <<JohnRow, HeaderRow, JohnRow>>],
                  [name |-> SheetName(2, 1), rows |-> rows]>>]

CorruptFile ==
    [name |-> <<"F","e","b","r","e","r","o">>, readable |-> FALSE, sheets |-> <<>>]

SecondFile ==
    [name |-> CensusName \o <<"b">>, readable |-> TRUE,
     sheets |-> <<[name |-> SheetName(4, 1), rows |-> <<HeaderRow, JaneRow>>]>>]

BlankFile ==
    [name |-> <<"c","e","n","s","o">>, readable |-> TRUE,
     sheets |-> <<[name |-> <<"R","e","s","u","m","e","n">>,
                   rows |-> <<HeaderRow, JohnRow>>]>>]

\* A second file of the upload, if any.
SecondFiles == {<<>>, <<CorruptFile>>, <<SecondFile>>}

\* The state of the application before handleFileUpload(files) starts.
InitUpload ==
    /\ \/ \E n \in 0..MaxRows : \E rows \in [1..n -> SheetRows] :
             \E second \in SecondFiles : files = <<CensusFile(rows)>> \o second
       \/ files = <<BlankFile>>
    /\ pc = "upload"
    /\ fileIdx = 0
    /\ globalContext = [year |-> Undefined, month |-> Undefined]
    /\ sheetsWithDates = <<>>
    /\ sheetIdx = 0
    /\ rowIdx = 0
    /\ currentBlock = "NONE"
    /\ headerFound = FALSE
    /\ colMap = EmptyColMap
    /\ fileSnapshots = <<>>
    /\ newSnapshotsArrays = <<>>
    /\ allSnapshots = <<>>
    /\ selectedReport = <<>>
    /\ closure = [allSnapshots |-> <<>>, selectedReport |-> <<>>]
    /\ pending = <<>>
    /\ started = 0
    /\ loading = FALSE
    /\ error = ""
    /\ input = <<>>
    /\ snapshots = <<>>
    /\ sorted = <<>>
    /\ globalMaxDate = Undefined
    /\ nameToRutMap = EmptyMap
    /\ patientGroups = <<>>
    /\ g = 0
    /\ patientSnaps = <<>>
    /\ i = 0
    /\ currentEvent = 0
    /\ events = <<>>
    /\ now = Now
    /\ minDate = Undefined
    /\ maxDate = Undefined
    /\ currentIter = 0
    /\ copies = <<>>
    /\ reports = <<>>

\* The file, the sheet and the row at hand.
CurrentFile == files[fileIdx]

CurrentSheet == CurrentFile.sheets[sheetsWithDates[sheetIdx].sheet]

CurrentRow == CurrentSheet.rows[rowIdx]

RowAtHand == pc = "rows" /\ rowIdx <= Len(CurrentSheet.rows)

\* After a file: the next one, or all promises settled.
AfterFile == IF fileIdx < Len(files) THEN "read" ELSE "settled"

\* Lines 32-36: setLoading(true), setError(null), one promise per file.
\* Each file is read in its own onload callback, which runs to its end; the
\* callbacks share no state, and are taken here in the order of the files.
\* The call is a closure of the render it was made in: the allSnapshots and
\* selectedReport it will use at lines 43 and 53 are those of that render.
StartUpload ==
    /\ pc = "upload"
    /\ loading' = TRUE
    /\ error' = ""
    /\ newSnapshotsArrays' = <<>>
    /\ fileIdx' = 1
    /\ closure' = [allSnapshots |-> allSnapshots, selectedReport |-> selectedReport]
    /\ started' = started + 1
    /\ pc' = "read"
    /\ UNCHANGED <<files, allSnapshots, selectedReport, pending, parseVars,
                   reconcileVars, events, reportVars>>

\* Lines 133, 271-273: XLSX.read throws, the promise of the file is rejected.
ReadFails ==
    /\ pc = "read"
    /\ ~CurrentFile.readable
    /\ newSnapshotsArrays' = Append(newSnapshotsArrays, [rejected |-> TRUE, value |-> <<>>])
    /\ fileIdx' = fileIdx + 1
    /\ pc' = AfterFile
    /\ UNCHANGED <<files, allSnapshots, selectedReport, loading, error, closure,
                   pending, started, parseVars, reconcileVars, events, reportVars>>

\* Lines 135-176: the context of the file, and no snapshot yet.
EstablishContext ==
    /\ pc = "read"
    /\ CurrentFile.readable
    /\ globalContext' = GlobalContext(CurrentFile, now)
    /\ fileSnapshots' = <<>>
    /\ pc' = "context"
    /\ UNCHANGED <<sheetsWithDates, sheetIdx, rowIdx, currentBlock, headerFound, colMap,
                   uploadVars, reconcileVars, events, reportVars>>

\* Lines 178-184: the dated sheets in date order.
SortSheets ==
    /\ pc = "context"
    /\ sheetsWithDates' = SheetsWithDates(CurrentFile, globalContext)
    /\ sheetIdx' = 1
    /\ pc' = "sheet"
    /\ UNCHANGED <<globalContext, rowIdx, currentBlock, headerFound, colMap,
                   fileSnapshots, uploadVars, reconcileVars, events, reportVars>>

\* Lines 187-195: the next sheet starts with no block, no header, no columns.
StartSheet ==
    /\ pc = "sheet"
    /\ sheetIdx <= Len(sheetsWithDates)
    /\ currentBlock' = "NONE"
    /\ headerFound' = FALSE
    /\ colMap' = EmptyColMap
    /\ rowIdx' = 1
    /\ pc' = "rows"
    /\ UNCHANGED <<globalContext, sheetsWithDates, sheetIdx, fileSnapshots,
                   uploadVars, reconcileVars, events, reportVars>>

\* Lines 200-209: a block marker.
BlockMarker ==
    /\ RowAtHand
    /\ MarkerBlock(CurrentRow) # ""
    /\ currentBlock' = MarkerBlock(CurrentRow)
    /\ rowIdx' = rowIdx + 1
    /\ UNCHANGED <<pc, globalContext, sheetsWithDates, sheetIdx, headerFound, colMap,
                   fileSnapshots, uploadVars, reconcileVars, events, reportVars>>

\* Lines 211-225: the header of the sheet.
FindHeader ==
    /\ RowAtHand
    /\ MarkerBlock(CurrentRow) = ""
    /\ ~headerFound
    /\ isHeaderRow(CurrentRow)
    /\ headerFound' = TRUE
    /\ currentBlock' = BlockAtHeader(currentBlock)
    /\ colMap' = BuildColMap(CurrentRow)
    /\ rowIdx' = rowIdx + 1
    /\ UNCHANGED <<pc, globalContext, sheetsWithDates, sheetIdx, fileSnapshots,
                   uploadVars, reconcileVars, events, reportVars>>

\* Lines 227-266: a row after the header that passes the filters.
PatientRow ==
    /\ RowAtHand
    /\ MarkerBlock(CurrentRow) = ""
    /\ headerFound
    /\ Len(CurrentRow) > 2
    /\ ~IsFiltered(CurrentRow, colMap)
    /\ fileSnapshots' = Append(fileSnapshots,
           RowSnapshot(CurrentRow, colMap, currentBlock,
                       sheetsWithDates[sheetIdx].date, CurrentFile.name))
    /\ rowIdx' = rowIdx + 1
    /\ UNCHANGED <<pc, globalContext, sheetsWithDates, sheetIdx, currentBlock,
                   headerFound, colMap, uploadVars, reconcileVars, events, reportVars>>

\* Any other row: before the header, too short, or filtered.
SkipRow ==
    /\ RowAtHand
    /\ MarkerBlock(CurrentRow) = ""
    /\ IF headerFound
       THEN (IF Len(CurrentRow) > 2 THEN IsFiltered(CurrentRow, colMap) ELSE TRUE)
       ELSE ~isHeaderRow(CurrentRow)
    /\ rowIdx' = rowIdx + 1
    /\ UNCHANGED <<pc, globalContext, sheetsWithDates, sheetIdx, currentBlock,
                   headerFound, colMap, fileSnapshots, uploadVars, reconcileVars,
                   events, reportVars>>

\* The end of the row loop of a sheet.
EndSheet ==
    /\ pc = "rows"
    /\ rowIdx > Len(CurrentSheet.rows)
    /\ sheetIdx' = sheetIdx + 1
    /\ pc' = "sheet"
    /\ UNCHANGED <<globalContext, sheetsWithDates, rowIdx, currentBlock, headerFound,
                   colMap, fileSnapshots, uploadVars, reconcileVars, events, reportVars>>

\* Line 270: resolve(snapshots).
Resolve ==
    /\ pc = "sheet"
    /\ sheetIdx > Len(sheetsWithDates)
    /\ newSnapshotsArrays' =
           Append(newSnapshotsArrays, [rejected |-> FALSE, value |-> fileSnapshots])
    /\ fileIdx' = fileIdx + 1
    /\ pc' = AfterFile
    /\ UNCHANGED <<files, allSnapshots, selectedReport, loading, error, closure,
                   pending, started, parseVars, reconcileVars, events, reportVars>>

\* Promise.all: rejected as soon as one promise is.
AnyRejected ==
    \E k \in 1..Len(newSnapshotsArrays) : newSnapshotsArrays[k].rejected

\* newSnapshotsArrays.flat()
RECURSIVE Flat(_)
Flat(arrays) == IF arrays = <<>> THEN <<>> ELSE Head(arrays).value \o Flat(Tail(arrays))

\* Lines 37-55, 59-61: every file was parsed and some snapshot was found;
\* the snapshots are added, reconciled, and the monthly reports generated.
UploadDone ==
    /\ pc = "settled"
    /\ ~AnyRejected
    /\ Flat(newSnapshotsArrays) # <<>>
    /\ LET rec == reconcileSnapshots(closure.allSnapshots \o Flat(newSnapshotsArrays))
           mon == generateMonthlyReports(rec.events, copies, now)
       IN  /\ allSnapshots' = rec.heap
           /\ events' = mon.events
           /\ copies' = mon.copies
           /\ reports' = mon.reports
           /\ selectedReport' = IF closure.selectedReport = <<>> /\ Len(mon.reports) > 0
                                THEN <<mon.reports[Len(mon.reports)]>>
                                ELSE selectedReport
    /\ loading' = FALSE
    /\ pc' = "uploaded"
    /\ UNCHANGED <<files, fileIdx, newSnapshotsArrays, error, closure, pending, started,
                   parseVars, reconcileVars, now, minDate, maxDate, currentIter>>

\* Lines 39-41, 56-61: a promise was rejected, or no snapshot was found; the
\* error is shown and nothing is ingested.
UploadFailed ==
    /\ pc = "settled"
    /\ IF AnyRejected THEN TRUE ELSE Flat(newSnapshotsArrays) = <<>>
    /\ error' = IF AnyRejected THEN "Error al procesar archivos."
                ELSE "No se encontraron datos válidos en los archivos."
    /\ loading' = FALSE
    /\ pc' = "uploaded"
    /\ UNCHANGED <<files, fileIdx, newSnapshotsArrays, allSnapshots, selectedReport,
                   closure, pending, started, parseVars, reconcileVars, events,
                   reportVars>>

NextUpload ==
    \/ StartUpload
    \/ ReadFails
    \/ EstablishContext
    \/ SortSheets
    \/ StartSheet
    \/ BlockMarker
    \/ FindHeader
    \/ PatientRow
    \/ SkipRow
    \/ EndSheet
    \/ Resolve
    \/ UploadDone
    \/ UploadFailed

SpecUpload == InitUpload /\ [][NextUpload]_vars

\* A session of several uploads.  The files the user may pick: a census
\* workbook of January 2025 with one sheet, in which a patient's diagnosis
\* reads "Derivado"; the second workbook; a file that cannot be read; a
\* workbook without a dated sheet.
ReferredRow ==
    <<<<"3","3",".","3","3","3","-","3">>, Jane, <<"D","e","r","i","v","a","d","o">>>>

JanuaryFile ==
    [name |-> CensusName, readable |-> TRUE,
     sheets |-> <<[name |-> SheetName(3, 1),
                   rows |-> <<JohnRow, HeaderRow, JohnRow, ReferredRow>>]>>]

Batches == {<<JanuaryFile>>, <<SecondFile>>, <<CorruptFile>>, <<BlankFile>>}

\* The session ends after this many calls of handleFileUpload.
MaxUploads == 3

\* The application as mounted, and the first call of handleFileUpload.
InitSession ==
    /\ files \in Batches
    /\ pc = "upload"
    /\ fileIdx = 0
    /\ globalContext = [year |-> Undefined, month |-> Undefined]
    /\ sheetsWithDates = <<>>
    /\ sheetIdx = 0
    /\ rowIdx = 0
    /\ currentBlock = "NONE"
    /\ headerFound = FALSE
    /\ colMap = EmptyColMap
    /\ fileSnapshots = <<>>
    /\ newSnapshotsArrays = <<>>
    /\ allSnapshots = <<>>
    /\ selectedReport = <<>>
    /\ closure = [allSnapshots |-> <<>>, selectedReport |-> <<>>]
    /\ pending = <<>>
    /\ started = 0
    /\ loading = FALSE
    /\ error = ""
    /\ input = <<>>
    /\ snapshots = <<>>
    /\ sorted = <<>>
    /\ globalMaxDate = Undefined
    /\ nameToRutMap = EmptyMap
    /\ patientGroups = <<>>
    /\ g = 0
    /\ patientSnaps = <<>>
    /\ i = 0
    /\ currentEvent = 0
    /\ events = <<>>
    /\ now = Now
    /\ minDate = Undefined
    /\ maxDate = Undefined
    /\ currentIter = 0
    /\ copies = <<>>
    /\ reports = <<>>

\* App.tsx lines 292-301 and 310-333, FileUploader lines 147-165: while no
\* call is in flight the user picks files again, in the FileUploader when
\* no report is selected (it is disabled while loading), in the mini
\* uploader of the sidebar when one is.  handleFileUpload is called.
UploaderChange ==
    /\ pc = "uploaded"
    /\ pending = <<>>
    /\ started < MaxUploads
    /\ IF selectedReport = <<>> THEN ~loading ELSE TRUE
    /\ \E batch \in Batches : files' = batch
    /\ pc' = "upload"
    /\ UNCHANGED <<fileIdx, newSnapshotsArrays, allSnapshots, selectedReport, loading,
                   error, closure, pending, started, parseVars, reconcileVars, events,
                   reportVars>>

\* App.tsx lines 310-333: the input of the mini uploader is rendered
\* whenever a report is selected and is not disabled while loading, so the
\* user picks files while an earlier call is in flight.  The new call runs
\* lines 33-36 at once, as a closure of the render at hand; its file
\* callbacks and its continuation are taken after those of the earlier call.
MiniUploaderChangeWhileLoading ==
    /\ pc \notin {"upload", "uploaded"}
    /\ selectedReport # <<>>
    /\ started < MaxUploads
    /\ \E batch \in Batches :
          pending' = Append(pending,
              [files |-> batch,
               closure |-> [allSnapshots |-> allSnapshots,
                            selectedReport |-> selectedReport]])
    /\ loading' = TRUE
    /\ error' = ""
    /\ started' = started + 1
    /\ UNCHANGED <<pc, files, fileIdx, newSnapshotsArrays, allSnapshots, selectedReport,
                   closure, parseVars, reconcileVars, events, reportVars>>

\* The file callbacks of a call made while another was in flight begin.
PendingCallRuns ==
    /\ pc = "uploaded"
    /\ pending # <<>>
    /\ files' = Head(pending).files
    /\ closure' = Head(pending).closure
    /\ pending' = Tail(pending)
    /\ newSnapshotsArrays' = <<>>
    /\ fileIdx' = 1
    /\ pc' = "read"
    /\ UNCHANGED <<allSnapshots, selectedReport, loading, error, started, parseVars,
                   reconcileVars, events, reportVars>>

NextSession ==
    \/ StartUpload
    \/ ReadFails
    \/ EstablishContext
    \/ SortSheets
    \/ StartSheet
    \/ BlockMarker
    \/ FindHeader
    \/ PatientRow
    \/ SkipRow
    \/ EndSheet
    \/ Resolve
    \/ UploadDone
    \/ UploadFailed
    \/ UploaderChange
    \/ MiniUploaderChangeWhileLoading
    \/ PendingCallRuns

SpecSession == InitSession /\ [][NextSession]_vars

\* parseExcelDate on the name of a sheet: a file named after a month and a
\* year, after another month, or after neither, with one sheet named
\* "p1-p2" or "p1-p2-25".
DateFileNames ==
    { <<"N","o","v","i","e","m","b","r","e"," ","2","0","2","5">>,
      CensusName,
      <<"c","e","n","s","o">> }

DateSheetNames ==
    { SheetName(p1, p2) : p1 \in 1..MaxPart, p2 \in 1..MaxPart }
    \cup { SheetName(p1, p2) \o <<"-","2","5">> : p1 \in 1..MaxPart, p2 \in 1..MaxPart }

InitDate ==
    /\ \E fn \in DateFileNames : \E sn \in DateSheetNames :
          files = <<[name |-> fn, readable |-> TRUE,
                     sheets |-> <<[name |-> sn, rows |-> <<>>]>>]>>
    /\ pc = "read"
    /\ fileIdx = 1
    /\ globalContext = [year |-> Undefined, month |-> Undefined]
    /\ sheetsWithDates = <<>>
    /\ sheetIdx = 0
    /\ rowIdx = 0
    /\ currentBlock = "NONE"
    /\ headerFound = FALSE
    /\ colMap = EmptyColMap
    /\ fileSnapshots = <<>>
    /\ newSnapshotsArrays = <<>>
    /\ allSnapshots = <<>>
    /\ selectedReport = <<>>
    /\ closure = [allSnapshots |-> <<>>, selectedReport |-> <<>>]
    /\ pending = <<>>
    /\ started = 1
    /\ loading = TRUE
    /\ error = ""
    /\ input = <<>>
    /\ snapshots = <<>>
    /\ sorted = <<>>
    /\ globalMaxDate = Undefined
    /\ nameToRutMap = EmptyMap
    /\ patientGroups = <<>>
    /\ g = 0
    /\ patientSnaps = <<>>
    /\ i = 0
    /\ currentEvent = 0
    /\ events = <<>>
    /\ now = Now
    /\ minDate = Undefined
    /\ maxDate = Undefined
    /\ currentIter = 0
    /\ copies = <<>>
    /\ reports = <<>>

NextDate == EstablishContext \/ SortSheets

SpecDate == InitDate /\ [][NextDate]_vars

\* The step-by-step run returns what the function returns.
RunIsFunction ==
    pc = "done" =>
        /\ events = reconcileSnapshots(input).events
        /\ snapshots = reconcileSnapshots(input).heap

\* ------------------------------------------------------------------ claims

\* The day number of a noon Date.
DayNumber(t) == (t - HalfDay) \div OneDay

\* The identities (ruts) of the input, its rows of one identity, and the
\* returned events of one identity.
InputRuts == { input[k].rut : k \in 1..Len(input) }

RowsOf(K) == { k \in 1..Len(input) : input[k].rut = K }

EventsOf(K) == { k \in 1..Len(events) : events[k].id[1] = K }

\* The latest snapshot date of the whole input.
MaxInputDate ==
    CHOOSE t \in { input[k].date : k \in 1..Len(input) } :
        \A k \in 1..Len(input) : input[k].date <= t

\* The consolidated snapshot the loop has just processed, and the one
\* before it (defined when pc = "loop" and i >= 3).
JustProcessed == snapshots[patientSnaps[i - 1]]

ProcessedBefore == snapshots[patientSnaps[i - 2]]

JumpDays == DayNumber(JustProcessed.date) - DayNumber(ProcessedBefore.date)

\* Identity K has exactly one snapshot on each of the n + 1 days d..d+n,
\* Hospitalized on the first n and Discharged on the last.
BedDayCase(K, d, n) ==
    /\ Cardinality(RowsOf(K)) = n + 1
    /\ \A j \in 0..n : \E r \in RowsOf(K) :
          /\ input[r].date = Noon(d + j)
          /\ input[r].status = IF j < n THEN "HOSPITALIZED" ELSE "DISCHARGED"

BedDayResult(K, d, n) ==
    \E k \in EventsOf(K) :
        /\ EventsOf(K) = {k}
        /\ events[k].firstSeen = Noon(d)
        /\ events[k].status = "Alta"
        /\ events[k].dischargeDate = Noon(d + n)
        /\ events[k].los = n

\* C1: Chilean bed-day rule.  An identity seen Hospitalized on n >= 1
\* consecutive days and Discharged on the following day gets exactly one
\* event, with status Alta, dischargeDate the day of the Discharged snapshot
\* and los = n.
C1_BedDayRule ==
    pc = "done" =>
        \A K \in InputRuts : \A d \in 1..MaxDay : \A n \in 1..MaxSnaps :
            BedDayCase(K, d, n) => BedDayResult(K, d, n)

C1_Witness ==
    /\ pc = "done"
    /\ \E K \in InputRuts : \E d \in 1..MaxDay :
          BedDayCase(K, d, 2) /\ BedDayResult(K, d, 2)

OnlyHospitalized(K, d, k) ==
    /\ Cardinality(RowsOf(K)) = k
    /\ \A j \in 0..k - 1 : \E r \in RowsOf(K) :
          input[r].date = Noon(d + j) /\ input[r].status = "HOSPITALIZED"

\* C3: implicit discharge as the test runner asserts it.  A patient seen
\* Hospitalized on k consecutive days and then no longer gets one event with
\* status Alta, dischargeDate the day after the last observation and
\* los = k, also when no snapshot of the input is later than that
\* observation.
C3_ImplicitDischargeAsTested ==
    pc = "done" =>
        \A K \in InputRuts : \A d \in 1..MaxDay : \A k \in 1..MaxSnaps :
            OnlyHospitalized(K, d, k) =>
                \E e \in EventsOf(K) :
                    /\ EventsOf(K) = {e}
                    /\ events[e].status = "Alta"
                    /\ events[e].dischargeDate = Noon(d + k)
                    /\ events[e].los = k

\* The set of days in a history.
HistoryDays(h) == { h[j] : j \in 1..Len(h) }

\* C4: gap tolerance.  Inside an event consecutive observed days are 1 or 2
\* days apart, the event runs from its first to its last observed day, two
\* consecutive events of one identity are 3 or more days apart, and every
\* observed day of an identity lies in one of its events: a snapshot
\* continues the current event exactly when at most one day is missing.
C4_GapTolerance ==
    /\ \A k \in 1..Len(events) :
          /\ \A j \in 1..Len(events[k].history) - 1 :
                events[k].history[j + 1] - events[k].history[j] \in {1, 2}
          /\ events[k].firstSeen = Noon(events[k].history[1])
          /\ events[k].lastSeen = Noon(events[k].history[Len(events[k].history)])
    /\ \A k \in 1..Len(events) - 1 :
          events[k].id[1] = events[k + 1].id[1]
              => DayNumber(events[k + 1].firstSeen) - DayNumber(events[k].lastSeen) >= 3
    /\ pc = "done" =>
          \A K \in InputRuts :
              UNION { HistoryDays(events[k].history) : k \in EventsOf(K) }
                  = { DayNumber(input[r].date) : r \in RowsOf(K) }

\* Snapshots of one identity on day d and day d + 2 only: one event, last
\* seen on day d + 2.
C4_Witness ==
    /\ pc = "done"
    /\ \E K \in InputRuts : \E d \in 1..MaxDay :
          /\ { DayNumber(input[r].date) : r \in RowsOf(K) } = {d, d + 2}
          /\ \E k \in EventsOf(K) :
                EventsOf(K) = {k} /\ events[k].lastSeen = Noon(d + 2)

\* C5 as stated: a snapshot dated three days after the event's lastSeen
\* extends the same event, so no event of an identity starts three days
\* after the identity's previous event was last seen.
C5_WeekendJumpContinuous ==
    \A k \in 1..Len(events) - 1 :
        events[k].id[1] = events[k + 1].id[1]
            => DayNumber(events[k + 1].firstSeen) - DayNumber(events[k].lastSeen) # 3

\* C5, amended: a snapshot dated three days after the event's lastSeen
\* opens a new event, and the previous event is left closed (by implicit
\* discharge at lastSeen + 1 day if its last snapshot was Hospitalized); a
\* snapshot dated two days after lastSeen extends the same event.
C5_ThreeDayJumpSplits ==
    (pc = "loop" /\ i >= 3) =>
        /\ JumpDays = 3 =>
              /\ currentEvent >= 2
              /\ events[currentEvent].firstSeen = JustProcessed.date
              /\ events[currentEvent].history = <<DayNumber(JustProcessed.date)>>
              /\ events[currentEvent - 1].id[1] = events[currentEvent].id[1]
              /\ events[currentEvent - 1].lastSeen = ProcessedBefore.date
              /\ events[currentEvent - 1].status # "Hospitalizado"
              /\ ProcessedBefore.status = "HOSPITALIZED" =>
                    /\ events[currentEvent - 1].status = "Alta"
                    /\ events[currentEvent - 1].dischargeDate
                           = ProcessedBefore.date + OneDay
        /\ JumpDays = 2 =>
              /\ events[currentEvent].lastSeen = JustProcessed.date
              /\ Len(events[currentEvent].history) >= 2
              /\ events[currentEvent].history[Len(events[currentEvent].history) - 1]
                     = DayNumber(ProcessedBefore.date)

C5_Witness ==
    /\ pc = "loop"
    /\ i >= 3
    /\ JumpDays = 3
    /\ currentEvent >= 2
    /\ events[currentEvent].firstSeen = JustProcessed.date
    /\ events[currentEvent - 1].status = "Alta"
    /\ events[currentEvent - 1].dischargeDate = ProcessedBefore.date + OneDay

\* Identity K has exactly the snapshots Hospitalized on day d, Discharged
\* on day d + 1 and Hospitalized on day d + 2, the last day of the data.
ResurrectionCase(K, d) ==
    /\ Cardinality(RowsOf(K)) = 3
    /\ \E r \in RowsOf(K) : input[r].date = Noon(d) /\ input[r].status = "HOSPITALIZED"
    /\ \E r \in RowsOf(K) : input[r].date = Noon(d + 1) /\ input[r].status = "DISCHARGED"
    /\ \E r \in RowsOf(K) : input[r].date = Noon(d + 2) /\ input[r].status = "HOSPITALIZED"
    /\ MaxInputDate = Noon(d + 2)

ResurrectionResult(K, d) ==
    \E k \in EventsOf(K) :
        /\ EventsOf(K) = {k}
        /\ events[k].status = "Hospitalizado"
        /\ events[k].dischargeDate = Undefined
        /\ events[k].transferDate = Undefined
        /\ events[k].lastSeen = Noon(d + 2)
        /\ events[k].los = 2

\* C6: resurrection.  When the previous snapshot of the identity closed the
\* event (Discharged or Transferred) and the next one, 1 or 2 days later, is
\* Hospitalized, no event is created: the same event is Hospitalizado again,
\* both exit dates cleared, lastSeen advanced.  Hospitalized day 1,
\* Discharged day 2, Hospitalized day 3 give one open event with los = 2.
C6_Resurrection ==
    /\ ( /\ pc = "loop"
         /\ i >= 3
         /\ ProcessedBefore.status \in {"DISCHARGED", "TRANSFERRED"}
         /\ JustProcessed.status = "HOSPITALIZED"
         /\ JumpDays \in {1, 2} )
       => /\ events[currentEvent].status = "Hospitalizado"
          /\ events[currentEvent].dischargeDate = Undefined
          /\ events[currentEvent].transferDate = Undefined
          /\ events[currentEvent].lastSeen = JustProcessed.date
          /\ Len(events[currentEvent].history) >= 2
          /\ events[currentEvent].history[Len(events[currentEvent].history) - 1]
                 = DayNumber(ProcessedBefore.date)
    /\ pc = "done" =>
          \A K \in InputRuts : \A d \in 1..MaxDay :
              ResurrectionCase(K, d) => ResurrectionResult(K, d)

C6_Witness ==
    /\ pc = "done"
    /\ \E K \in InputRuts : \E d \in 1..MaxDay :
          ResurrectionCase(K, d) /\ ResurrectionResult(K, d)

\* dischargeDate if set, else transferDate if set, else lastSeen
ExitOrLastSeen(e) ==
    IF e.dischargeDate # Undefined THEN e.dischargeDate
    ELSE IF e.transferDate # Undefined THEN e.transferDate
    ELSE e.lastSeen

FinalizedSnapshotAt(t) ==
    snapshots[patientSnaps[CHOOSE j \in 1..Len(patientSnaps) :
                               snapshots[patientSnaps[j]].date = t]]

\* C9: date order of every event.  firstSeen <= lastSeen and a set exit
\* date is not before firstSeen; once the identity is finalized, an event
\* whose last snapshot was Hospitalized has no transfer date and, if
\* closed, was discharged at lastSeen + 1 day, and an event whose last
\* snapshot was Discharged (Transferred) has that exit date equal to
\* lastSeen.
C9_DateOrder ==
    /\ \A k \in 1..Len(events) :
          /\ events[k].firstSeen <= events[k].lastSeen
          /\ events[k].dischargeDate # Undefined
                => events[k].dischargeDate >= events[k].firstSeen
          /\ events[k].transferDate # Undefined
                => events[k].transferDate >= events[k].firstSeen
    /\ (pc \in {"forEach", "done"} /\ g > 1) =>
          \A k \in 1..Len(events) :
              events[k].id[1] = patientGroups[g - 1].key =>
                  IF FinalizedSnapshotAt(events[k].lastSeen).status = "HOSPITALIZED"
                  THEN /\ events[k].transferDate = Undefined
                       /\ events[k].dischargeDate # Undefined
                             => /\ events[k].status = "Alta"
                                /\ events[k].dischargeDate = events[k].lastSeen + OneDay
                       /\ events[k].dischargeDate = Undefined
                             => events[k].status = "Hospitalizado"
                  ELSE IF FinalizedSnapshotAt(events[k].lastSeen).status = "DISCHARGED"
                  THEN /\ events[k].dischargeDate = events[k].lastSeen
                       /\ events[k].transferDate = Undefined
                  ELSE /\ events[k].transferDate = events[k].lastSeen
                       /\ events[k].dischargeDate = Undefined

\* Returned together: an event closed by implicit discharge and an event,
\* several days long, closed by an explicit one.
C9_Witness ==
    /\ pc = "done"
    /\ \E a \in 1..Len(events) : \E b \in 1..Len(events) :
          /\ events[a].dischargeDate = events[a].lastSeen + OneDay
          /\ events[b].dischargeDate = events[b].lastSeen
          /\ events[b].firstSeen < events[b].lastSeen

Reorderings(n) ==
    { p \in [1..n -> 1..n] : \A a \in 1..n : \A b \in 1..n : a # b => p[a] # p[b] }

\* What the claim compares of an event.
EventView(e) ==
    [key |-> e.id[1], firstSeen |-> e.firstSeen, lastSeen |-> e.lastSeen,
     dischargeDate |-> e.dischargeDate, transferDate |-> e.transferDate,
     status |-> e.status, los |-> e.los, bedType |-> e.bedType,
     isUPC |-> e.isUPC, wasEverUPC |-> e.wasEverUPC]

EventViews(evs) == { EventView(evs[k]) : k \in 1..Len(evs) }

C11_Idempotent ==
    pc = "done" => reconcileSnapshots(snapshots).events = events

\* The first call repaired a rut and merged a same-day status into a
\* snapshot, and the second call returns the same events.
C11_Witness ==
    /\ pc = "done"
    /\ \E k \in 1..Len(input) : snapshots[k].rut # input[k].rut
    /\ \E k \in 1..Len(input) : snapshots[k].status # input[k].status
    /\ Len(events) >= 1
    /\ reconcileSnapshots(snapshots).events = events

\* C12: reconcileSnapshots leaves the snapshots it is given as they were:
\* same rut, status and diagnosis after the call as before it.
C12_InputNotModified ==
    \A k \in 1..Len(input) :
        /\ snapshots[k].rut = input[k].rut
        /\ snapshots[k].status = input[k].status
        /\ snapshots[k].diagnosis = input[k].diagnosis

\* Some snapshot of the identity of event k, on a day of the event's
\* history, was in a critical-care bed.
MergedUPC(k) ==
    \E r \in 1..Len(input) :
        /\ input[r].rut = events[k].id[1]
        /\ DayNumber(input[r].date) \in HistoryDays(events[k].history)
        /\ input[r].isUPC

\* C13: wasEverUPC is a latch.  No step resets an event's wasEverUPC from
\* true to false; isUPC implies wasEverUPC; and a returned event has
\* wasEverUPC exactly when some snapshot merged into it, same-day
\* duplicates included, had isUPC.
C13_WasEverUPCLatch ==
    /\ [](\A k \in 1..Len(events) : events[k].isUPC => events[k].wasEverUPC)
    /\ [](pc = "done" =>
             \A k \in 1..Len(events) : events[k].wasEverUPC = MergedUPC(k))
    /\ [][\A k \in 1..Len(events) :
             events[k].wasEverUPC => (k <= Len(events') /\ events'[k].wasEverUPC)]_vars

\* A returned event that was in a critical-care bed and is no longer:
\* isUPC false, wasEverUPC still true, after a later non-UPC snapshot and a
\* closing one.
C13_Witness ==
    /\ pc = "done"
    /\ \E k \in 1..Len(events) :
          /\ events[k].wasEverUPC
          /\ ~events[k].isUPC
          /\ MergedUPC(k)
          /\ Len(events[k].history) >= 2
          /\ events[k].status = "Alta"

\* C14: same-day consolidation.  The snapshots of an identity that enter
\* segmentation have strictly increasing dates, and the history of every
\* event lists strictly increasing dates.
C14_OneSnapshotPerDay ==
    /\ \A j \in 1..Len(patientSnaps) - 1 :
          snapshots[patientSnaps[j]].date < snapshots[patientSnaps[j + 1]].date
    /\ \A k \in 1..Len(events) : \A j \in 1..Len(events[k].history) - 1 :
          events[k].history[j] < events[k].history[j + 1]

\* An identity with two snapshots of the same date and a later one: the
\* returned event lists that date once.
C14_Witness ==
    /\ pc = "done"
    /\ \E a \in 1..Len(input) : \E b \in 1..Len(input) : \E k \in 1..Len(events) :
          /\ a # b
          /\ input[a].date = input[b].date
          /\ input[a].rut = input[b].rut
          /\ events[k].id[1] = input[a].rut
          /\ events[k].history[1] = DayNumber(input[a].date)
          /\ Len(events[k].history) = 2

\* The calendar days of month m, and the day of the present time.
DaysOfMonth(m) == FirstDayOfMonth(m)..(FirstDayOfMonth(m + 1) - 1)

Today == IsoDate(now)

\* The j-th patient of a report, and the report's daily stats of day d
\* (all zero when the report lists no stats for d).
PatientOf(rep, j) == Deref(events, copies, rep.patients[j])

StatsOn(rep, d) ==
    IF \E j \in 1..Len(rep.dailyStats) : rep.dailyStats[j].date = d
    THEN rep.dailyStats[CHOOSE j \in 1..Len(rep.dailyStats) : rep.dailyStats[j].date = d]
    ELSE NewDailyStats(d)

\* Day d is a bed-day of event e: admission day <= d < exit day, or
\* admission day <= d when the event has no exit.
IsBedDay(e, d) ==
    /\ DayNumber(e.firstSeen) <= d
    /\ (EventEnd(e) = Undefined \/ d < DayNumber(EventEnd(e)))

\* C15: bed-day counting in a monthly report.  For every day d of the
\* month not after today, totalOccupancy of d is the number of the report's
\* patients for which d is a bed-day (admission day counted, exit day not),
\* and a patient's daysInPeriod is the number of its bed-days among those
\* days.
C15_BedDaysInReport ==
    \A r \in 1..Len(reports) :
        LET rep == reports[r]
            days == { d \in DaysOfMonth(rep.title) : d <= Today }
        IN  /\ \A d \in days :
                  StatsOn(rep, d).totalOccupancy =
                      Cardinality({ j \in 1..Len(rep.patients) :
                                        IsBedDay(PatientOf(rep, j), d) })
            /\ \A j \in 1..Len(rep.patients) :
                  PatientOf(rep, j).daysInPeriod =
                      Cardinality({ d \in days : IsBedDay(PatientOf(rep, j), d) })

\* The events first seen on day d, and those whose exit is on day d.
AdmittedOn(d) == { k \in 1..Len(events) : DayNumber(events[k].firstSeen) = d }

ExitedOn(d) ==
    { k \in 1..Len(events) :
          EventEnd(events[k]) # Undefined /\ DayNumber(EventEnd(events[k])) = d }

\* C16: the window of a monthly report is inclusive at both ends.
\* totalAdmissions counts every event first seen on a day of the month, the
\* first and the last included; the admissions of the first and of the last
\* day count the events first seen that day, and the discharges and
\* transfers of the last day count the events whose exit is that day.
C16_WindowInclusive ==
    \A r \in 1..Len(reports) :
        LET rep == reports[r]
            first == FirstDayOfMonth(rep.title)
            last == FirstDayOfMonth(rep.title + 1) - 1
        IN  /\ rep.totalAdmissions =
                  Cardinality(UNION { AdmittedOn(d) : d \in DaysOfMonth(rep.title) })
            /\ StatsOn(rep, first).admissions = Cardinality(AdmittedOn(first))
            /\ StatsOn(rep, last).admissions = Cardinality(AdmittedOn(last))
            /\ StatsOn(rep, last).discharges + StatsOn(rep, last).transfers
                  = Cardinality(ExitedOn(last))

RECURSIVE SumOfDischarges(_)
SumOfDischarges(stats) ==
    IF stats = <<>> THEN 0 ELSE Head(stats).discharges + SumOfDischarges(Tail(stats))

\* C17: in every report totalDischarges is the sum of the daily discharges,
\* transfers not being counted.
C17_TotalDischarges ==
    \A r \in 1..Len(reports) :
        reports[r].totalDischarges = SumOfDischarges(reports[r].dailyStats)

\* C18: the reporter is pure.  Generating a report changes no event it is
\* given (daysInPeriod included) and no Patient object held by an earlier
\* report.
C18_ReporterPurity ==
    [][ pc = "months" =>
            /\ events' = events
            /\ Len(copies') >= Len(copies)
            /\ \A c \in 1..Len(copies) : copies'[c] = copies[c] ]_vars

\* Two reports hold the same event with different daysInPeriod, and the
\* event itself still has the daysInPeriod it was given.
C18_Witness ==
    /\ pc = "reported"
    /\ Len(reports) = 2
    /\ \E a \in 1..Len(reports[1].patients) : \E b \in 1..Len(reports[2].patients) :
          /\ PatientOf(reports[1], a).id = PatientOf(reports[2], b).id
          /\ PatientOf(reports[1], a).daysInPeriod > PatientOf(reports[2], b).daysInPeriod
          /\ PatientOf(reports[2], b).daysInPeriod > 0
          /\ \A k \in 1..Len(events) :
                events[k].id = PatientOf(reports[1], a).id => events[k].daysInPeriod = 0

\* The events the claim selects for the window [start, end].
Selected(start, end) ==
    { k \in 1..Len(events) :
          /\ events[k].firstSeen <= end
          /\ (IF events[k].dischargeDate # Undefined THEN events[k].dischargeDate
              ELSE IF events[k].transferDate # Undefined THEN events[k].transferDate
              ELSE EndOfTime) >= start }

\* An event without its per-report field.
SansDaysInPeriod(e) == [e EXCEPT !.daysInPeriod = 0]

\* C19: generateReportForPeriod returns null exactly when no event has
\* firstSeen <= end and (dischargeDate ?? transferDate ?? +infinity) >= start;
\* otherwise the report's patients are exactly those events, in order.
C19_NullIffNoOverlap ==
    [][ (pc = "months" /\ currentIter' = currentIter + 1) =>
            LET sel == Selected(MonthStart(currentIter), MonthEnd(currentIter))
            IN  IF sel = {}
                THEN reports' = reports
                ELSE /\ Len(reports') = Len(reports) + 1
                     /\ Len(reports'[Len(reports')].patients) = Cardinality(sel)
                     /\ \A j \in 1..Cardinality(sel) :
                           SansDaysInPeriod(copies'[reports'[Len(reports')].patients[j].at])
                               = SansDaysInPeriod(events[SortedSeq(sel)[j]]) ]_vars

\* Two months were visited: one gave no report, the other a report that
\* holds some of the events and not all.
C19_Witness ==
    /\ pc = "reported"
    /\ Len(events) >= 2
    /\ currentIter = MonthOfDay(IsoDate(minDate)) + 2
    /\ Len(reports) = 1
    /\ Len(reports[1].patients) < Len(events)

\* Event e overlaps calendar month m.
OverlapsMonth(e, m) ==
    /\ DayNumber(e.firstSeen) < FirstDayOfMonth(m + 1)
    /\ (EventEnd(e) = Undefined \/ DayNumber(EventEnd(e)) >= FirstDayOfMonth(m))

\* The months from the earliest to the latest event month that some event
\* overlaps.
MonthsWithEvents ==
    { m \in MonthOfDay(DayNumber(MinDate(events)))..MonthOfDay(DayNumber(MaxDate(events))) :
          \E k \in 1..Len(events) : OverlapsMonth(events[k], m) }

\* C20: generateMonthlyReports returns the reports of the months, from the
\* earliest to the latest event month, that have an overlapping event, in
\* ascending order, the 36 most recent when there are more; no events, no
\* reports.
C20_MonthlyReports ==
    pc = "reported" =>
        /\ Len(reports) <= MaxReports
        /\ IF events = <<>> THEN reports = <<>>
           ELSE [j \in 1..Len(reports) |-> reports[j].title]
                    = SliceLast(SortedSeq(MonthsWithEvents), MaxReports)

\* C26: same-day merge keeps the exit status.  When a snapshot of the
\* current identity on some date is in the discharged or transferred
\* block, the consolidated snapshot of that date that enters segmentation
\* is not HOSPITALIZED, whatever the order and the UPC flags.
C26_ExitStatusKept ==
    pc = "loop" =>
        \A j \in 1..Len(patientSnaps) :
            (\E r \in 1..Len(input) :
                 /\ input[r].rut = patientGroups[g].key
                 /\ input[r].date = snapshots[patientSnaps[j]].date
                 /\ input[r].status # "HOSPITALIZED")
            => snapshots[patientSnaps[j]].status # "HOSPITALIZED"

\* Snapshot k of the input has no usable rut, and the ruts longer than 3
\* characters that the input gives for its normalized name.
NoUsableRut(k) == input[k].rut = "" \/ Len(input[k].rut) < 3

RutsOfName(k) ==
    { input[j].rut : j \in { j \in 1..Len(input) :
          /\ Len(input[j].rut) > 3
          /\ normalizeName(input[j].name) = normalizeName(input[k].name) } }

\* The key of the group that holds snapshot k.
GroupKeyOf(k) ==
    patientGroups[CHOOSE q \in 1..Len(patientGroups) :
                      \E j \in 1..Len(patientGroups[q].snaps) :
                          patientGroups[q].snaps[j] = k].key

\* C27: identity resolution.  When the snapshots have just been grouped
\* (before the first group is consolidated), a snapshot without a usable
\* rut whose normalized name is that of a snapshot with a rut longer than 3
\* characters carries such a rut and is in the group of that rut; one
\* without such a match keeps its rut and is in the group
\* 'NAME-' + normalized name.
C27_IdentityResolution ==
    (pc = "forEach" /\ g = 1) =>
        \A k \in 1..Len(input) :
            NoUsableRut(k) =>
                IF RutsOfName(k) # {}
                THEN /\ snapshots[k].rut \in RutsOfName(k)
                     /\ GroupKeyOf(k) = snapshots[k].rut
                ELSE /\ snapshots[k].rut = input[k].rut
                     /\ GroupKeyOf(k) = "NAME-" \o normalizeName(input[k].name)

\* One call resolved a snapshot without rut through the name map and
\* grouped another under its name; both identities got an event.
C27_Witness ==
    /\ pc = "done"
    /\ \E k \in 1..Len(input) :
          /\ NoUsableRut(k)
          /\ RutsOfName(k) # {}
          /\ snapshots[k].rut # input[k].rut
          /\ \E e \in 1..Len(events) : events[e].id[1] = snapshots[k].rut
    /\ \E k \in 1..Len(input) :
          /\ NoUsableRut(k)
          /\ RutsOfName(k) = {}
          /\ \E e \in 1..Len(events) :
                events[e].id[1] = "NAME-" \o normalizeName(input[k].name)

\* C21: totalUpcPatients of a report is the number of distinct patient
\* identities (grouping keys of the reconciler) among the report's patients
\* with wasEverUPC; several events of one identity count once, whether the
\* key is a rut or a normalized name.
C21_UpcPatients ==
    \A r \in 1..Len(reports) :
        reports[r].totalUpcPatients =
            Cardinality({ PatientOf(reports[r], j).id[1] :
                            j \in { j \in 1..Len(reports[r].patients) :
                                        PatientOf(reports[r], j).wasEverUPC } })

\* What happened on calendar day d: some event has d as a bed-day, or was
\* first seen that day, or left that day.
SomethingOn(d) ==
    \/ \E k \in 1..Len(events) : IsBedDay(events[k], d)
    \/ AdmittedOn(d) # {}
    \/ ExitedOn(d) # {}

\* C29: the dailyStats of a monthly report are in ascending date order,
\* one entry per date, all of days of the month; a day of the month up to
\* today is listed exactly when something happened on it: an occupied bed,
\* an admission, a discharge or a transfer.
C29_DailyStatsDays ==
    \A r \in 1..Len(reports) :
        LET rep == reports[r] IN
        /\ \A j \in 1..Len(rep.dailyStats) - 1 :
              rep.dailyStats[j].date < rep.dailyStats[j + 1].date
        /\ \A j \in 1..Len(rep.dailyStats) :
              rep.dailyStats[j].date \in DaysOfMonth(rep.title)
        /\ \A d \in { d \in DaysOfMonth(rep.title) : d <= Today } :
              (\E j \in 1..Len(rep.dailyStats) : rep.dailyStats[j].date = d)
                  <=> SomethingOn(d)

\* C22: batch ingestion.  When the upload is over, the snapshots of every
\* file of the batch that was parsed are among the accumulated snapshots,
\* even if the parsing of another file of the batch failed.
C22_OtherFilesIngested ==
    pc = "uploaded" =>
        \A k \in 1..Len(newSnapshotsArrays) :
            ~newSnapshotsArrays[k].rejected =>
                \A j \in 1..Len(newSnapshotsArrays[k].value) :
                    \E a \in 1..Len(allSnapshots) :
                        /\ allSnapshots[a].date = newSnapshotsArrays[k].value[j].date
                        /\ allSnapshots[a].name = newSnapshotsArrays[k].value[j].name
                        /\ allSnapshots[a].sourceFile
                               = newSnapshotsArrays[k].value[j].sourceFile

\* The day of the month, and the month of the year (0-indexed), of a date.
DayOfMonth(t) == IsoDate(t) - FirstDayOfMonth(MonthOfDay(IsoDate(t))) + 1

MonthOfYear(t) == MonthOfDay(IsoDate(t)) % 12

November2025 == <<"N","o","v","i","e","m","b","r","e"," ","2","0","2","5">>

\* C23: date disambiguation from context.  With a known context month M,
\* a sheet name "p1-p2" (with or without a year) is read as day p1 of
\* month M when p2 = M + 1, else as day p2 of month M when p1 = M + 1, else
\* as day p1 of month p2, at 12:00 of the context's (or the name's) year;
\* "01-11" in a file of November 2025 is November 1st 2025, not January 11th.
C23_DateDisambiguation ==
    pc = "sheet" =>
        /\ \A p1 \in 1..MaxPart : \A p2 \in 1..MaxPart :
              (/\ files[1].sheets[1].name
                      \in {SheetName(p1, p2), SheetName(p1, p2) \o <<"-","2","5">>}
               /\ globalContext.month # Undefined)
              => /\ Len(sheetsWithDates) = 1
                 /\ sheetsWithDates[1].date % OneDay = HalfDay
                 /\ IF p2 = globalContext.month + 1
                    THEN /\ DayOfMonth(sheetsWithDates[1].date) = p1
                         /\ MonthOfYear(sheetsWithDates[1].date) = globalContext.month
                         /\ YearOf(sheetsWithDates[1].date) = globalContext.year
                    ELSE IF p1 = globalContext.month + 1
                    THEN /\ DayOfMonth(sheetsWithDates[1].date) = p2
                         /\ MonthOfYear(sheetsWithDates[1].date) = globalContext.month
                         /\ YearOf(sheetsWithDates[1].date) = globalContext.year
                    ELSE p2 <= 12 =>
                         /\ DayOfMonth(sheetsWithDates[1].date) = p1
                         /\ MonthOfYear(sheetsWithDates[1].date) = p2 - 1
                         /\ YearOf(sheetsWithDates[1].date) = globalContext.year
        /\ (files[1].name = November2025 /\ files[1].sheets[1].name = SheetName(1, 11))
              => /\ IsoDate(sheetsWithDates[1].date) = FirstDayOfMonth(10)
                 /\ IsoDate(sheetsWithDates[1].date) # 11

\* The sheet "11-01" of a file of November 2025 was dated November 1st 2025
\* at 12:00: the month comes first in that name.
C23_Witness ==
    /\ pc = "sheet"
    /\ files[1].name = November2025
    /\ globalContext = [year |-> 2025, month |-> 10]
    /\ files[1].sheets[1].name = SheetName(11, 1)
    /\ Len(sheetsWithDates) = 1
    /\ sheetsWithDates[1].date = Noon(FirstDayOfMonth(10))

\* A marker row, and the header of a sheet: its first row that is no
\* marker and looks like a header (0 when the sheet has none).
IsMarkerRow(row) == MarkerBlock(row) # ""

RECURSIVE HeaderFrom(_, _)
HeaderFrom(rows, k) ==
    IF k > Len(rows) THEN 0
    ELSE IF ~IsMarkerRow(rows[k]) /\ isHeaderRow(rows[k]) THEN k
    ELSE HeaderFrom(rows, k + 1)

HeaderOf(rows) == HeaderFrom(rows, 1)

\* A row whose name cell is NOMBRE or PACIENTE, or whose ID cell is RUT or RUN.
GhostRow(row, cm) ==
    \/ CheckOf(CellAt(row, cm, "NAME")) \in {Words.NOMBRE, Words.PACIENTE}
    \/ CheckOf(CellAt(row, cm, "RUT")) \in {Words.RUT, Words.RUN}

C25_NoIdNoDiagnosisDropped ==
    [][ (/\ RowAtHand
         /\ headerFound
         /\ CellAt(CurrentRow, colMap, "NAME") # <<>>
         /\ CellAt(CurrentRow, colMap, "RUT") = <<>>
         /\ CellAt(CurrentRow, colMap, "DIAG") = <<>>)
        => fileSnapshots' = fileSnapshots ]_vars

\* The block selected by the latest header or marker row above row r of a
\* sheet, given the position of its header.
RECURSIVE BlockAbove(_, _, _)
BlockAbove(rows, header, r) ==
    IF r <= 1 THEN "NONE"
    ELSE IF IsMarkerRow(rows[r - 1]) THEN MarkerBlock(rows[r - 1])
    ELSE IF r - 1 = header THEN "HOSPITALIZED"
    ELSE BlockAbove(rows, header, r - 1)

\* C28: every sheet starts with no block, no header and no column; marker
\* rows, the header row and the rows before the header emit no snapshot;
\* any other row emits at most one snapshot, whose status is the block
\* selected by the latest header or marker row above it.
C28_BlockOfSnapshots ==
    [][ /\ (pc = "sheet" /\ pc' = "rows") =>
               (currentBlock' = "NONE" /\ ~headerFound' /\ colMap' = EmptyColMap)
        /\ RowAtHand =>
               LET rows == CurrentSheet.rows
                   header == HeaderOf(rows)
               IN  IF IsMarkerRow(rows[rowIdx]) \/ header = 0 \/ rowIdx <= header
                   THEN fileSnapshots' = fileSnapshots
                   ELSE fileSnapshots' # fileSnapshots =>
                            /\ Len(fileSnapshots') = Len(fileSnapshots) + 1
                            /\ SubSeq(fileSnapshots', 1, Len(fileSnapshots)) = fileSnapshots
                            /\ fileSnapshots'[Len(fileSnapshots')].status
                                   = BlockAbove(rows, header, rowIdx) ]_vars

\* Both sheets of a file were read: the first gave a snapshot in the
\* transferred block; the second, whose first patient row comes before its
\* header, gave one hospitalized snapshot.
C28_Witness ==
    /\ pc = "sheet"
    /\ sheetIdx = 3
    /\ Len(fileSnapshots) = 2
    /\ fileSnapshots[1].status = "TRANSFERRED"
    /\ fileSnapshots[1].date < fileSnapshots[2].date
    /\ fileSnapshots[2].status = "HOSPITALIZED"

\* C30: the CAMA filter rejects a row only when its name cell is literally
\* CAMA or TIPO DE CAMA: a row after the header that no other filter
\* rejects produces a snapshot exactly when its name is neither, so a
\* patient whose name contains CAMA inside a longer name is emitted.
C30_CamaFilter ==
    [][ (/\ RowAtHand
         /\ headerFound
         /\ ~IsMarkerRow(CurrentRow)
         /\ Len(CurrentRow) > 2
         /\ CellAt(CurrentRow, colMap, "NAME") # <<>>
         /\ ~GhostRow(CurrentRow, colMap)
         /\ ~Includes(CheckOf(CellAt(CurrentRow, colMap, "NAME")), Words.NOMBREDELPACIENTE)
         /\ ~Includes(CheckOf(CellAt(CurrentRow, colMap, "NAME")), Words.SERVICIODE)
         /\ ~Includes(CheckOf(CellAt(CurrentRow, colMap, "NAME")), Words.UNIDADDE)
         /\ ~IsBlockedBed(NormalizedChars(CellAt(CurrentRow, colMap, "NAME")))
         /\ NormalizedChars(CellAt(CurrentRow, colMap, "NAME")) # <<>>)
        => (Len(fileSnapshots') = Len(fileSnapshots) + 1
              <=> CheckOf(CellAt(CurrentRow, colMap, "NAME")) \notin {Words.CAMA, Words.TIPODECAMA}) ]_vars

\* C31: status and exit dates agree in every returned event: Hospitalizado
\* iff no exit date is set, Alta iff only dischargeDate is set, Traslado iff
\* only transferDate is set; the two exit dates are never set together and
\* the status is never Desconocido.
C31_StatusAndExitDates ==
    pc = "done" =>
        \A k \in 1..Len(events) :
            /\ events[k].status \in {"Hospitalizado", "Alta", "Traslado"}
            /\ ~(events[k].dischargeDate # Undefined /\ events[k].transferDate # Undefined)
            /\ events[k].status = "Hospitalizado"
                  <=> (events[k].dischargeDate = Undefined
                       /\ events[k].transferDate = Undefined)
            /\ events[k].status = "Alta"
                  <=> (events[k].dischargeDate # Undefined
                       /\ events[k].transferDate = Undefined)
            /\ events[k].status = "Traslado"
                  <=> (events[k].transferDate # Undefined
                       /\ events[k].dischargeDate = Undefined)

\* An event that was closed by a discharge and, continued the day after,
\* ended as a transfer; another event is still hospitalized.
C31_Witness ==
    /\ pc = "done"
    /\ \E k \in 1..Len(events) :
          /\ events[k].status = "Traslado"
          /\ \E j \in RowsOf(events[k].id[1]) :
                /\ input[j].status = "DISCHARGED"
                /\ input[j].date < events[k].transferDate
                /\ IsoDate(input[j].date) \in HistoryDays(events[k].history)
    /\ \E k \in 1..Len(events) : events[k].status = "Hospitalizado"

\* C32: every returned event that is Hospitalizado was last seen on the
\* latest snapshot date of the input; an identity has at most one such
\* event, and it is the identity's last event.
C32_OpenEventAtGlobalEnd ==
    pc = "done" =>
        \A k \in 1..Len(events) :
            events[k].status = "Hospitalizado" =>
                /\ events[k].lastSeen = MaxInputDate
                /\ \A j \in EventsOf(events[k].id[1]) :
                      j # k => /\ events[j].status # "Hospitalizado"
                               /\ events[j].firstSeen < events[k].firstSeen

\* An identity with two events, the last one still hospitalized, and
\* another identity whose only event, last seen before the end of the
\* data, is closed.
C32_Witness ==
    /\ pc = "done"
    /\ \E k \in 1..Len(events) :
          /\ events[k].status = "Hospitalizado"
          /\ Cardinality(EventsOf(events[k].id[1])) = 2
    /\ \E k \in 1..Len(events) :
          /\ Cardinality(EventsOf(events[k].id[1])) = 1
          /\ events[k].lastSeen < MaxInputDate
          /\ events[k].status = "Alta"
          /\ \A j \in RowsOf(events[k].id[1]) : input[j].status = "HOSPITALIZED"

\* The exit date of an event (Undefined for an open one).
ExitDate(e) ==
    IF e.dischargeDate # Undefined THEN e.dischargeDate ELSE e.transferDate

\* C33: events of one identity never overlap: of two events of an
\* identity, the earlier is closed (Alta or Traslado) and its exit date is
\* strictly earlier than the firstSeen of the later.
C33_NoOverlap ==
    pc = "done" =>
        \A j \in 1..Len(events) : \A k \in 1..Len(events) :
            (/\ events[j].id[1] = events[k].id[1]
             /\ events[j].firstSeen < events[k].firstSeen)
            => /\ events[j].status \in {"Alta", "Traslado"}
               /\ ExitDate(events[j]) # Undefined
               /\ ExitDate(events[j]) < events[k].firstSeen

\* An identity with two events: the first was left hospitalized and
\* closed by the gap, the second follows.
C33_Witness ==
    /\ pc = "done"
    /\ \E j \in 1..Len(events) : \E k \in 1..Len(events) :
          /\ events[j].id[1] = events[k].id[1]
          /\ events[j].firstSeen < events[k].firstSeen
          /\ events[j].dischargeDate = NextDay(events[j].lastSeen)
          /\ \A r \in RowsOf(events[j].id[1]) : input[r].status = "HOSPITALIZED"

\* The days on which the identity of key K has a snapshot, and the groups
\* that hold snapshot k.
DaysOf(K) == { IsoDate(input[k].date) : k \in RowsOf(K) }

GroupsOf(k) ==
    { q \in 1..Len(patientGroups) :
          \E j \in 1..Len(patientGroups[q].snaps) : patientGroups[q].snaps[j] = k }

\* C34: snapshot conservation.  Every input snapshot is in exactly one
\* group, once; for each identity, every day with a snapshot is in the
\* history of exactly one of its events, once, and no history holds a day
\* without a snapshot.
C34_SnapshotConservation ==
    pc = "done" =>
        /\ \A k \in 1..Len(input) :
              /\ Cardinality(GroupsOf(k)) = 1
              /\ \A q \in GroupsOf(k) :
                    /\ patientGroups[q].key = input[k].rut
                    /\ Cardinality({ j \in 1..Len(patientGroups[q].snaps) :
                                         patientGroups[q].snaps[j] = k }) = 1
        /\ \A k \in 1..Len(events) :
              /\ HistoryDays(events[k].history) \subseteq DaysOf(events[k].id[1])
              /\ Cardinality(HistoryDays(events[k].history)) = Len(events[k].history)
              /\ \A j \in EventsOf(events[k].id[1]) :
                    j # k => HistoryDays(events[j].history)
                                 \cap HistoryDays(events[k].history) = {}
        /\ \A K \in InputRuts : \A d \in DaysOf(K) :
              \E k \in EventsOf(K) : d \in HistoryDays(events[k].history)

\* An identity with two snapshots on one day and a third some days later
\* has two events; the first holds the shared day once.
C34_Witness ==
    /\ pc = "done"
    /\ \E K \in InputRuts :
          /\ Cardinality(EventsOf(K)) = 2
          /\ Cardinality(RowsOf(K)) = 3
          /\ Cardinality(DaysOf(K)) = 2
          /\ \A k \in EventsOf(K) : Len(events[k].history) = 1

\* The sum of totalOccupancy over daily stats, and of daysInPeriod over the
\* first n patients of a report.
RECURSIVE SumOfOccupancy(_)
SumOfOccupancy(stats) ==
    IF stats = <<>> THEN 0
    ELSE Head(stats).totalOccupancy + SumOfOccupancy(Tail(stats))

RECURSIVE SumOfDaysInPeriod(_, _)
SumOfDaysInPeriod(rep, n) ==
    IF n = 0 THEN 0
    ELSE PatientOf(rep, n).daysInPeriod + SumOfDaysInPeriod(rep, n - 1)

\* C35: bed-day conservation in a report.  On every day of dailyStats
\* totalOccupancy = upcOccupancy + nonUpcOccupancy, and totalOccupancy
\* summed over dailyStats is daysInPeriod summed over the report's patients.
C35_BedDayConservation ==
    \A r \in 1..Len(reports) :
        /\ \A j \in 1..Len(reports[r].dailyStats) :
              reports[r].dailyStats[j].totalOccupancy
                  = reports[r].dailyStats[j].upcOccupancy
                    + reports[r].dailyStats[j].nonUpcOccupancy
        /\ SumOfOccupancy(reports[r].dailyStats)
              = SumOfDaysInPeriod(reports[r], Len(reports[r].patients))

\* A report with a day on which a critical-care patient and another one
\* occupy a bed, and with a day kept for its admissions alone.
C35_Witness ==
    /\ pc = "reported"
    /\ \E r \in 1..Len(reports) :
          /\ \E j \in 1..Len(reports[r].dailyStats) :
                /\ reports[r].dailyStats[j].upcOccupancy = 1
                /\ reports[r].dailyStats[j].nonUpcOccupancy = 1
          /\ \E j \in 1..Len(reports[r].dailyStats) :
                /\ reports[r].dailyStats[j].totalOccupancy = 0
                /\ reports[r].dailyStats[j].admissions > 0
          /\ SumOfOccupancy(reports[r].dailyStats) >= 3

\* C36: for every event of a report, daysInPeriod <= los.
C36_DaysInPeriodWithinLos ==
    \A r \in 1..Len(reports) :
        \A j \in 1..Len(reports[r].patients) :
            PatientOf(reports[r], j).daysInPeriod <= PatientOf(reports[r], j).los

\* C37: coverage by monthly reports.  Once the monthly reports are
\* generated, every event is among the patients of at least one report.
C37_EveryEventReported ==
    pc = "reported" =>
        \A k \in 1..Len(events) :
            \E r \in 1..Len(reports) :
                \E j \in 1..Len(reports[r].patients) :
                    PatientOf(reports[r], j).id = events[k].id

\* Snapshot a is snapshot b: the same patient on the same day from the
\* same file.
SameSnapshot(a, b) ==
    /\ a.date = b.date
    /\ a.name = b.name
    /\ a.sourceFile = b.sourceFile

\* C38: no snapshot is lost when uploads overlap: whenever a call of
\* handleFileUpload completes successfully, allSnapshots keeps every snapshot
\* it had (those of the calls that completed before, also of a call that was
\* in flight when this one started) and gains those of this call.
C38_NoLostSnapshots ==
    [][(/\ pc = "settled"
        /\ pc' = "uploaded"
        /\ ~AnyRejected
        /\ Flat(newSnapshotsArrays) # <<>>)
       => /\ \A k \in 1..Len(allSnapshots) : \E j \in 1..Len(allSnapshots') :
                 SameSnapshot(allSnapshots[k], allSnapshots'[j])
          /\ \A k \in 1..Len(Flat(newSnapshotsArrays)) :
                 \E j \in 1..Len(allSnapshots') :
                     SameSnapshot(Flat(newSnapshotsArrays)[k], allSnapshots'[j])]_vars

\* The figures of a report, and the number of its patients.
ReportFigures(rep) ==
    [title |-> rep.title,
     startDate |-> rep.startDate,
     endDate |-> rep.endDate,
     dailyStats |-> rep.dailyStats,
     totalAdmissions |-> rep.totalAdmissions,
     totalDischarges |-> rep.totalDischarges,
     totalUpcPatients |-> rep.totalUpcPatients,
     avgLOS |-> rep.avgLOS,
     patients |-> Len(rep.patients)]

\* C39: after a successful upload the report shown is current: a selected
\* report is one of the reports of the list just generated, so its figures
\* are those of a report of that list.
C39_SelectedReportCurrent ==
    (pc = "uploaded" /\ error = "" /\ selectedReport # <<>>)
        => \E r \in 1..Len(reports) :
               ReportFigures(reports[r]) = ReportFigures(selectedReport[1])

\* C40: a row after the header with a name and a RUT that passes the
\* filters is emitted as a snapshot and leaves the current block as it is,
\* whatever its other cells read.
C40_PatientRowEmitted ==
    [][(/\ RowAtHand
        /\ headerFound
        /\ Len(CurrentRow) > 2
        /\ ~IsFiltered(CurrentRow, colMap)
        /\ cleanRut(CellAt(CurrentRow, colMap, "RUT")) # "")
       => /\ Len(fileSnapshots') = Len(fileSnapshots) + 1
          /\ currentBlock' = currentBlock]_vars

====
